---- MODULE Spec2Model ----
(***************************************************************************)
(* State-machine model of the dittonetwork indexer: the per-chain          *)
(* synchronization worker (workers/chain_worker.py), the event reducers    *)
(* (events/parsers.py), the persistence layer (core/database.py) and the   *)
(* metadata filler (workers/meta_filler.py).                               *)
(*                                                                         *)
(* The document store is modelled as four collections.  A transaction      *)
(* (Database.db_session) works on a snapshot of the store taken when it    *)
(* starts, sees its own writes, and at commit either applies all its       *)
(* writes or, when a document it updated was changed by another            *)
(* transaction meanwhile (a write conflict), aborts with none applied.     *)
(***************************************************************************)
EXTENDS Integers, Sequences, FiniteSets, TLC

\* ------------------------------------------------------------------ bounds
\* Number of blocks the chains produce in all.
MaxHead == 3
\* Number of blocks the chains produce in all where two chains are indexed.
MaxReducerBlocks == 2
\* Largest configured batch_size.
MaxBatchSize == 2
\* Cap on a workflow's recorded metadata-fetch failures.
MaxFailures == 3
\* Number of blocks the chain produces where the WASM filler works.
MaxWasmBlocks == 2
\* Number of blocks the chain produces where the metadata filler works through a batch.
MaxMetaBlocks == 2
\* Number of hours the clock advances where the fillers' failure window is watched.
MaxTime == 2
\* Number of blocks each chain produces where a blocked worker is watched.
MaxBlockedBlocks == 1
\* Largest runs value of a workflow stored before per-chain counters existed.
MaxLegacyRuns == 2

\* ------------------------------------------------------- program constants
\* DEFAULT_LAST_PROCESSED_BLOCK: cursor of a chain first seen
DEFAULT_LAST_PROCESSED_BLOCK == 0
\* META_FILLER_BATCH_SIZE default
META_FILLER_BATCH_SIZE == 10
\* failures within the window after which a pending item is skipped
FAILURE_CAP == 3
\* workers/wasm_filler.py: the attempts of a storage retry loop, and the base of
\* its delays (the unit of the delays here, half a second)
MAX_RETRY_ATTEMPTS == 3
RETRY_BASE_DELAY == 1

\* ------------------------------------------------------------- value sets
None == "none"
NoTime == 0 - 1

\* str(chain_id): the key of chains_runs
ChainIdStr(c) == IF c = 1 THEN "1" ELSE IF c = 2 THEN "2" ELSE "other"

\* EventType: the names of the recognized events, as stored in a log entry
EventType ==
    [CREATED |-> "Created", RUN |-> "Run", RUN_WITH_METADATA |-> "RunWithMetadata",
     CANCELLED |-> "Cancelled"]
\* The two event kinds of the WASM registry.  The worker and the reducers name
\* them WASM_CREATED and WASM_UPDATED and compare their values
\* with the ABI's event names; the enumeration in config.py does not declare
\* them, so their values are taken from the event names of the specification.
WASM_CREATED == "WasmCreated"
WASM_UPDATED == "WasmUpdated"

\* ----------------------------------------------------------------- helpers
Max(a, b) == IF a >= b THEN a ELSE b
Min(a, b) == IF a <= b THEN a ELSE b

RECURSIVE SetMax(_)
SetMax(S) ==
    IF S = {} THEN 0
    ELSE LET x == CHOOSE y \in S : TRUE IN Max(x, SetMax(S \ {x}))

\* max(d.values()) of a dict d with integer values
MaxValue(d) == SetMax({d[k] : k \in DOMAIN d})

RECURSIVE SumValues(_)
SumValues(d) ==
    IF DOMAIN d = {} THEN 0
    ELSE LET k == CHOOSE x \in DOMAIN d : TRUE
         IN d[k] + SumValues([y \in DOMAIN d \ {k} |-> d[y]])

EmptyDict == [k \in {} |-> 0]

\* d[k] = v on a dict (the key is added when absent)
DictSet(d, k, v) == [x \in DOMAIN d \cup {k} |-> IF x = k THEN v ELSE d[x]]

\* {"$set": fields} applied to a document: named fields replaced, others kept
SetFields(doc, fields) ==
    [k \in DOMAIN doc \cup DOMAIN fields |->
        IF k \in DOMAIN fields THEN fields[k] ELSE doc[k]]

\* find_one: the first of the positions matching a query, 0 if none
FirstIndex(matches) ==
    IF matches = {} THEN 0 ELSE CHOOSE i \in matches : \A j \in matches : i <= j

\* ---------------------------------------------------------- document shapes
NoId == <<>>
\* the wasm_code of a module that holds none (the field is absent)
NoCode == <<>>
\* A JSON value: an object (its members in order, each a key and a value), an
\* array (its elements in order, the key unused) or a scalar.  A key is the
\* sequence of its characters.
JsonValue == [kind |-> "value", items |-> <<>>]
JsonObject(members) == [kind |-> "dict", items |-> members]
JsonArray(elements) ==
    [kind |-> "list", items |-> [i \in 1..Len(elements) |-> [key |-> <<>>, value |-> elements[i]]]]
Member(k, v) == [key |-> k, value |-> v]

\* wf.get("meta", {}) of a workflow whose metadata was never stored.  A payload
\* is its JSON document (body) and what meta.get("workflow", {}).get("count")
\* gives for it.
NoMeta == [present |-> FALSE, body |-> JsonObject(<<>>), has_count |-> FALSE, count |-> 0]

\* The store: the four collections; a session works on a value of this shape.
EmptyStore(chainDocs) ==
    [chains |-> chainDocs, logs |-> <<>>, workflows |-> <<>>, wasm_modules |-> <<>>]

LogDoc(event, chain_id, evt) ==
    [event |-> event, chain_id |-> chain_id, blocknumber |-> evt.blockNumber,
     transaction_hash |-> evt.transactionHash, ipfs_hash |-> evt.ipfsHash,
     nonce |-> None, wasm_id |-> None, new_ipfs_hash |-> None]

\* ObjectId of an inserted log entry
InsertedId(log_doc) == log_doc.transaction_hash

\* ------------------------------------------------------ persistence layer
\* Database.insert_log
insert_log(S, log_doc) == [S EXCEPT !.logs = Append(@, log_doc)]

\* Database.insert_workflow
insert_workflow(S, workflow_doc) == [S EXCEPT !.workflows = Append(@, workflow_doc)]

\* Database.find_workflow_by_ipfs: position of the first match, 0 when none
find_workflow_by_ipfs(S, ipfs_hash) ==
    FirstIndex({i \in 1..Len(S.workflows) : S.workflows[i].ipfs_hash = ipfs_hash})

\* Database.update_workflow: update_one({"ipfs_hash": h}, {"$set": update_fields})
update_workflow(S, workflow_ipfs_hash, update_fields) ==
    LET i == find_workflow_by_ipfs(S, workflow_ipfs_hash)
    IN  IF i = 0 THEN S
        ELSE [S EXCEPT !.workflows[i] = SetFields(@, update_fields)]

\* variant: only the run events logged since the workflow was created are
\* looked at
has_run_event_with_nonce_since_creation(S, workflow_ipfs_hash, nonce) ==
    \E i \in 1..Len(S.logs) :
        /\ S.logs[i].ipfs_hash = workflow_ipfs_hash
        /\ S.logs[i].nonce = nonce
        /\ S.logs[i].event = "Run"
        /\ \E j \in 1..(i - 1) :
            /\ S.logs[j].ipfs_hash = workflow_ipfs_hash
            /\ S.logs[j].event = "Created"

\* Database.has_run_event_with_nonce
has_run_event_with_nonce(S, workflow_ipfs_hash, nonce) ==
    \E i \in 1..Len(S.logs) :
        /\ S.logs[i].ipfs_hash = workflow_ipfs_hash
        /\ S.logs[i].nonce = nonce
        /\ S.logs[i].event = "Run"

\* variant: the cursor update is dropped from the batch transaction
update_chain_last_processed_dropped(S, chain_id, block_number) == S

\* Database.update_chain_last_processed
update_chain_last_processed(S, chain_id, block_number) ==
    [S EXCEPT !.chains[chain_id].last_processed_block = block_number]

\* Database.update_chain_wasm_last_processed
update_chain_wasm_last_processed(S, chain_id, block_number) ==
    [S EXCEPT !.chains[chain_id].wasm_last_processed_block = block_number]

\* Database.update_chain_sync_status
update_chain_sync_status(S, chain_id, is_synced) ==
    [S EXCEPT !.chains[chain_id].is_synced = is_synced]

\* Database.insert_wasm
insert_wasm(S, wasm_doc) == [S EXCEPT !.wasm_modules = Append(@, wasm_doc)]

\* Database.find_wasm_by_id
find_wasm_by_id(S, wasm_id) ==
    FirstIndex({i \in 1..Len(S.wasm_modules) : S.wasm_modules[i].wasm_id = wasm_id})

\* Database.update_wasm: $set of the plain fields, $unset of those under "$unset"
\* (an unset field is modelled by its absent value, given in unset_fields)
update_wasm(S, wasm_id, set_fields, unset_fields) ==
    LET i == find_wasm_by_id(S, wasm_id)
    IN  IF i = 0 THEN S
        ELSE [S EXCEPT !.wasm_modules[i] = SetFields(SetFields(@, set_fields), unset_fields)]

\* ---------------------------------------------------------- event reducers
\* The runs / chains_runs / is_cancelled update shared by parse_run and
\* parse_run_with_metadata, computed from the workflow document wf.
\* variant: the total is the sum of the per-chain counters
RunsUpdate_sums(wf, chain_id) ==
    LET chain_id_str == ChainIdStr(chain_id)
        bumped == DictSet(wf.chains_runs, chain_id_str,
                          (IF chain_id_str \in DOMAIN wf.chains_runs
                           THEN wf.chains_runs[chain_id_str] ELSE 0) + 1)
        update == [runs |-> SumValues(bumped), chains_runs |-> bumped]
    IN  IF wf.meta.has_count /\ SumValues(bumped) >= wf.meta.count
        THEN update @@ [is_cancelled |-> TRUE]
        ELSE update

\* variant: the workflow is cancelled only once its runs exceed the count
RunsUpdate_exceeds(wf, chain_id) ==
    LET current_runs == wf.runs
        chains_runs == wf.chains_runs
        flat == current_runs > 0 /\ DOMAIN chains_runs = {}
        chain_id_str == ChainIdStr(chain_id)
        bumped == DictSet(chains_runs, chain_id_str,
                          (IF chain_id_str \in DOMAIN chains_runs
                           THEN chains_runs[chain_id_str] ELSE 0) + 1)
        new_runs == IF flat THEN current_runs + 1 ELSE MaxValue(bumped)
        update == IF flat THEN [runs |-> new_runs]
                  ELSE [runs |-> new_runs, chains_runs |-> bumped]
        meta == wf.meta
    IN  IF meta.has_count /\ new_runs > meta.count
        THEN update @@ [is_cancelled |-> TRUE]
        ELSE update

\* variant: no backward compatibility, every workflow takes the per-chain path
RunsUpdate_migrates(wf, chain_id) ==
    LET chains_runs == wf.chains_runs
        chain_id_str == ChainIdStr(chain_id)
        bumped == DictSet(chains_runs, chain_id_str,
                          (IF chain_id_str \in DOMAIN chains_runs
                           THEN chains_runs[chain_id_str] ELSE 0) + 1)
        new_runs == MaxValue(bumped)
        update == [runs |-> new_runs, chains_runs |-> bumped]
        meta == wf.meta
    IN  IF meta.has_count /\ new_runs >= meta.count
        THEN update @@ [is_cancelled |-> TRUE]
        ELSE update

\* the update both run reducers make to the workflow they found
RunsUpdate(wf, chain_id) ==
    LET current_runs == wf.runs
        chains_runs == wf.chains_runs
        flat == current_runs > 0 /\ DOMAIN chains_runs = {}
        chain_id_str == ChainIdStr(chain_id)
        bumped == DictSet(chains_runs, chain_id_str,
                          (IF chain_id_str \in DOMAIN chains_runs
                           THEN chains_runs[chain_id_str] ELSE 0) + 1)
        new_runs == IF flat THEN current_runs + 1 ELSE MaxValue(bumped)
        update == IF flat THEN [runs |-> new_runs]
                  ELSE [runs |-> new_runs, chains_runs |-> bumped]
        meta == wf.meta
    IN  IF meta.has_count /\ new_runs >= meta.count
        THEN update @@ [is_cancelled |-> TRUE]
        ELSE update

\* variant: every Created event inserts a workflow
parse_created_always_inserts(S, evt, chain_id) ==
    LET log_doc == LogDoc(EventType.CREATED, chain_id, evt)
    IN  insert_workflow(insert_log(S, log_doc),
            [ipfs_hash |-> evt.ipfsHash, create_event_id |-> InsertedId(log_doc),
             has_meta |-> FALSE, meta |-> NoMeta, runs |-> 0,
             chains_runs |-> EmptyDict, is_cancelled |-> FALSE,
             cancel_event_id |-> NoId,
             meta_fetch_failure_count |-> 0, meta_fetch_last_failed |-> NoTime])

\* variant: a Created event for a known hash resets the workflow's metadata
parse_created_resets_meta(S, evt, chain_id) ==
    LET log_doc == LogDoc(EventType.CREATED, chain_id, evt)
        S1 == insert_log(S, log_doc)
    IN  IF find_workflow_by_ipfs(S1, evt.ipfsHash) = 0
        THEN insert_workflow(S1,
                [ipfs_hash |-> evt.ipfsHash, create_event_id |-> InsertedId(log_doc),
                 has_meta |-> FALSE, meta |-> NoMeta, runs |-> 0,
                 chains_runs |-> EmptyDict, is_cancelled |-> FALSE,
                 cancel_event_id |-> NoId,
                 meta_fetch_failure_count |-> 0, meta_fetch_last_failed |-> NoTime])
        ELSE update_workflow(S1, evt.ipfsHash, [has_meta |-> FALSE, meta |-> NoMeta])

\* parse_created
parse_created(S, evt, chain_id) ==
    LET log_doc == LogDoc(EventType.CREATED, chain_id, evt)
        S1 == insert_log(S, log_doc)
    IN  IF find_workflow_by_ipfs(S1, evt.ipfsHash) = 0
        THEN insert_workflow(S1,
                [ipfs_hash |-> evt.ipfsHash, create_event_id |-> InsertedId(log_doc),
                 has_meta |-> FALSE, meta |-> NoMeta, runs |-> 0,
                 chains_runs |-> EmptyDict, is_cancelled |-> FALSE,
                 cancel_event_id |-> NoId,
                 meta_fetch_failure_count |-> 0, meta_fetch_last_failed |-> NoTime])
        ELSE S1

\* variant: the nonce is not looked up before the run is counted
parse_run_with_metadata_counts_always(S, evt, chain_id) ==
    LET log_doc == [LogDoc(EventType.RUN, chain_id, evt) EXCEPT !.nonce = evt.nonce]
        i == find_workflow_by_ipfs(S, evt.ipfsHash)
        S1 == IF i # 0
              THEN update_workflow(S, S.workflows[i].ipfs_hash,
                                   RunsUpdate(S.workflows[i], chain_id))
              ELSE S
    IN  insert_log(S1, log_doc)

\* parse_run_with_metadata
parse_run_with_metadata(S, evt, chain_id) ==
    LET log_doc == [LogDoc(EventType.RUN, chain_id, evt) EXCEPT !.nonce = evt.nonce]
        i == find_workflow_by_ipfs(S, evt.ipfsHash)
        S1 == IF i # 0 /\ ~has_run_event_with_nonce(S, evt.ipfsHash, evt.nonce)
              THEN update_workflow(S, S.workflows[i].ipfs_hash,
                                   RunsUpdate(S.workflows[i], chain_id))
              ELSE S
    IN  insert_log(S1, log_doc)

\* variant: a Run event is counted only when no run of the workflow is logged
\* without a nonce yet
parse_run_deduplicates(S, evt, chain_id) ==
    LET log_doc == LogDoc(EventType.RUN, chain_id, evt)
        i == find_workflow_by_ipfs(S, evt.ipfsHash)
        S1 == IF i # 0 /\ ~has_run_event_with_nonce(S, evt.ipfsHash, None)
              THEN update_workflow(S, S.workflows[i].ipfs_hash,
                                   RunsUpdate(S.workflows[i], chain_id))
              ELSE S
    IN  insert_log(S1, log_doc)

\* parse_run
parse_run(S, evt, chain_id) ==
    LET log_doc == LogDoc(EventType.RUN, chain_id, evt)
        i == find_workflow_by_ipfs(S, evt.ipfsHash)
        S1 == IF i # 0
              THEN update_workflow(S, S.workflows[i].ipfs_hash,
                                   RunsUpdate(S.workflows[i], chain_id))
              ELSE S
    IN  insert_log(S1, log_doc)

\* variant: the update is made whether or not the workflow is cancelled already
parse_cancelled_always_updates(S, evt, chain_id) ==
    LET log_doc == LogDoc(EventType.CANCELLED, chain_id, evt)
        S1 == insert_log(S, log_doc)
    IN  update_workflow(S1, evt.ipfsHash,
            [is_cancelled |-> TRUE, cancel_event_id |-> InsertedId(log_doc)])

\* parse_cancelled
parse_cancelled(S, evt, chain_id) ==
    LET log_doc == LogDoc(EventType.CANCELLED, chain_id, evt)
        S1 == insert_log(S, log_doc)
        i == find_workflow_by_ipfs(S1, evt.ipfsHash)
    IN  IF i # 0 /\ ~S1.workflows[i].is_cancelled
        THEN update_workflow(S1, S1.workflows[i].ipfs_hash,
                [is_cancelled |-> TRUE, cancel_event_id |-> InsertedId(log_doc)])
        ELSE S1

\* parse_wasm_created
parse_wasm_created(S, evt, chain_id) ==
    LET log_doc == [LogDoc(WASM_CREATED, chain_id, evt) EXCEPT !.wasm_id = evt.id]
        S1 == insert_log(S, log_doc)
    IN  IF find_wasm_by_id(S1, evt.id) = 0
        THEN insert_wasm(S1,
                [wasm_id |-> evt.id, ipfs_hash |-> evt.ipfsHash, owner |-> evt.owner,
                 create_event_id |-> InsertedId(log_doc), chain_id |-> chain_id,
                 has_wasm |-> FALSE, wasm_code |-> NoCode, wasm_code_size |-> 0,
                 update_history |-> <<>>, update_event_id |-> NoId,
                 wasm_fetch_failure_count |-> 0, wasm_fetch_last_failed |-> NoTime])
        ELSE S1

\* variant: the new entry replaces the history instead of extending it
parse_wasm_updated_replaces_history(S, evt, chain_id) ==
    LET log_doc == [LogDoc(WASM_UPDATED, chain_id, evt) EXCEPT
                        !.wasm_id = evt.id, !.ipfs_hash = None,
                        !.new_ipfs_hash = evt.newIpfsHash]
        S1 == insert_log(S, log_doc)
        i == find_wasm_by_id(S1, evt.id)
    IN  IF i # 0
        THEN update_wasm(S1, evt.id,
                [ipfs_hash |-> evt.newIpfsHash,
                 update_event_id |-> InsertedId(log_doc),
                 update_history |->
                    <<[old_ipfs_hash |-> evt.oldIpfsHash, new_ipfs_hash |-> evt.newIpfsHash,
                       update_event_id |-> InsertedId(log_doc),
                       timestamp |-> evt.blockNumber, chain_id |-> chain_id]>>,
                 has_wasm |-> FALSE],
                [wasm_code |-> NoCode, wasm_code_size |-> 0])
        ELSE S1

\* variant: a new hash starts with a clean failure record
parse_wasm_updated_resets_failures(S, evt, chain_id) ==
    LET log_doc == [LogDoc(WASM_UPDATED, chain_id, evt) EXCEPT
                        !.wasm_id = evt.id, !.ipfs_hash = None,
                        !.new_ipfs_hash = evt.newIpfsHash]
        S1 == insert_log(S, log_doc)
        i == find_wasm_by_id(S1, evt.id)
    IN  IF i # 0
        THEN update_wasm(S1, evt.id,
                [ipfs_hash |-> evt.newIpfsHash,
                 update_event_id |-> InsertedId(log_doc),
                 update_history |-> Append(S1.wasm_modules[i].update_history,
                    [old_ipfs_hash |-> evt.oldIpfsHash, new_ipfs_hash |-> evt.newIpfsHash,
                     update_event_id |-> InsertedId(log_doc),
                     timestamp |-> evt.blockNumber, chain_id |-> chain_id]),
                 has_wasm |-> FALSE,
                 wasm_fetch_failure_count |-> 0, wasm_fetch_last_failed |-> NoTime],
                [wasm_code |-> NoCode, wasm_code_size |-> 0])
        ELSE S1

\* parse_wasm_updated
parse_wasm_updated(S, evt, chain_id) ==
    LET log_doc == [LogDoc(WASM_UPDATED, chain_id, evt) EXCEPT
                        !.wasm_id = evt.id, !.ipfs_hash = None,
                        !.new_ipfs_hash = evt.newIpfsHash]
        S1 == insert_log(S, log_doc)
        i == find_wasm_by_id(S1, evt.id)
    IN  IF i # 0
        THEN update_wasm(S1, evt.id,
                [ipfs_hash |-> evt.newIpfsHash,
                 update_event_id |-> InsertedId(log_doc),
                 update_history |-> Append(S1.wasm_modules[i].update_history,
                    [old_ipfs_hash |-> evt.oldIpfsHash, new_ipfs_hash |-> evt.newIpfsHash,
                     update_event_id |-> InsertedId(log_doc),
                     timestamp |-> evt.blockNumber, chain_id |-> chain_id]),
                 has_wasm |-> FALSE],
                [wasm_code |-> NoCode, wasm_code_size |-> 0])
        ELSE S1

\* ------------------------------------------------------------------- state
VARIABLES
    \* the document store (committed state)
    chains, logs, workflows, wasm_modules,
    \* the environment: chain height, the logs each registry emitted per block
    \* (known once first fetched), the payload behind each content hash, the clock
    head, chainlog, ipfs, now,
    \* per chain: its configuration and its worker's fields and position
    chain_doc, pc, last_processed, wasm_last_processed, current_block, batch_start,
    ts_cache, txn,
    \* per chain: what the worker's latest step logged about a batch attempt, or
    \* "killed" when the process died while the worker was inside a batch
    \* (history, never read by the program)
    last_event,
    \* the metadata filler: position and open transaction
    meta_pc, meta_txn,
    \* the WASM filler: position, the modules of the batch still to handle (as the
    \* lookup returned them), the code fetched for the current one, the attempt
    \* number of the running retry loop and the delays it slept so far; and what
    \* it did with the item it handled last (history, never read by the program)
    wasm_pc, wasms, wasm_code, attempt, slept, wasm_event

storeVars == <<chains, logs, workflows, wasm_modules>>
envVars == <<head, chainlog, ipfs, now>>
workerVars == <<pc, last_processed, wasm_last_processed, current_block, batch_start,
                ts_cache, txn, last_event>>
metaVars == <<meta_pc, meta_txn>>
wasmFillerVars == <<wasm_pc, wasms, wasm_code, attempt, slept, wasm_event>>
vars == <<storeVars, envVars, chain_doc, workerVars, metaVars, wasmFillerVars>>

\* the configured chains (main() starts one worker for each)
Chains == DOMAIN chain_doc

Store == [chains |-> chains, logs |-> logs, workflows |-> workflows,
          wasm_modules |-> wasm_modules]

SetStore(S) ==
    \E T \in {S} :
        /\ chains' = T.chains
        /\ logs' = T.logs
        /\ workflows' = T.workflows
        /\ wasm_modules' = T.wasm_modules

NoTxn == [active |-> FALSE]

\* ------------------------------------------------------------ transactions
\* documents of a collection a transaction updated (they existed in its snapshot)
Updated(snapColl, viewColl) == {i \in 1..Len(snapColl) : viewColl[i] # snapColl[i]}

\* documents a transaction inserted
Inserted(snapColl, viewColl) == SubSeq(viewColl, Len(snapColl) + 1, Len(viewColl))

\* variant: the index on wasm_modules.wasm_id is not unique
DuplicateKey_none(S, snap, view) == FALSE

\* the unique index on wasm_modules.wasm_id: a module the transaction inserted
\* has the wasm_id of a module the store holds by now
DuplicateKey(S, snap, view) ==
    \E k \in 1..Len(Inserted(snap.wasm_modules, view.wasm_modules)) :
        \E i \in 1..Len(S.wasm_modules) :
            S.wasm_modules[i].wasm_id
                = Inserted(snap.wasm_modules, view.wasm_modules)[k].wasm_id

\* variant: only the unique index makes a commit fail, the last writer of a
\* document wins
WriteConflict_unique_index_only(S, snap, view) == DuplicateKey(S, snap, view)

\* a document the transaction updated was changed in the store since its
\* snapshot, or an insert of the transaction violates a unique index
WriteConflict(S, snap, view) ==
    \/ DuplicateKey(S, snap, view)
    \/ \E i \in Updated(snap.workflows, view.workflows) : S.workflows[i] # snap.workflows[i]
    \/ \E i \in Updated(snap.wasm_modules, view.wasm_modules) :
            S.wasm_modules[i] # snap.wasm_modules[i]
    \/ \E c \in DOMAIN snap.chains :
            view.chains[c] # snap.chains[c] /\ S.chains[c] # snap.chains[c]

\* session.commit_transaction: the transaction's writes applied to the store
CommitTransaction(S, snap, view) ==
    LET Apply(cur, sn, vw) ==
            [i \in 1..Len(cur) |-> IF i \in Updated(sn, vw) THEN vw[i] ELSE cur[i]]
                \o Inserted(sn, vw)
    IN  [chains |-> [c \in DOMAIN S.chains |->
                        IF view.chains[c] # snap.chains[c] THEN view.chains[c]
                        ELSE S.chains[c]],
         logs |-> S.logs \o Inserted(snap.logs, view.logs),
         workflows |-> Apply(S.workflows, snap.workflows, view.workflows),
         wasm_modules |-> Apply(S.wasm_modules, snap.wasm_modules, view.wasm_modules)]

\* variant: an aborted transaction keeps the writes made before the failure
AbortTransaction_keeps_writes(S, snap, view) ==
    [CommitTransaction(S, snap, view) EXCEPT !.chains = S.chains]

\* session.abort_transaction: none of the transaction's writes reach the store
AbortTransaction(S, snap, view) == S

\* Database.db_session: the store after the with-block ended normally (ok) or
\* raised; a commit that meets a write conflict raises and aborts
db_session(S, snap, view, ok) ==
    IF ok /\ ~WriteConflict(S, snap, view)
    THEN CommitTransaction(S, snap, view)
    ELSE AbortTransaction(S, snap, view)

\* ------------------------------------------------------------ chain node
\* A raw log as the node returns it: topic-0 (named by the event it hashes),
\* block, transaction hash (one per log here) and the undecoded arguments.
Template(topic, ipfsHash, nonce, id, newIpfsHash) ==
    [topic |-> topic, ipfsHash |-> ipfsHash, nonce |-> nonce, id |-> id,
     oldIpfsHash |-> ipfsHash, newIpfsHash |-> newIpfsHash, owner |-> "o1"]

RawLog(c, r, b, i, t) ==
    [topic |-> t.topic, blockNumber |-> b, transactionHash |-> <<c, r, b, i>>,
     ipfsHash |-> t.ipfsHash, nonce |-> t.nonce, id |-> t.id,
     oldIpfsHash |-> t.oldIpfsHash, newIpfsHash |-> t.newIpfsHash, owner |-> t.owner]

\* the logs of registry r of chain c in blocks from..to, in block order
RECURSIVE get_logs(_, _, _, _, _)
get_logs(log, c, r, from, to) ==
    IF from > to THEN <<>>
    ELSE [i \in 1..Len(log[from]) |-> RawLog(c, r, from, i, log[from][i])]
            \o get_logs(log, c, r, from + 1, to)

\* ---------------------------------------------------------- chain worker
\* ChainWorker._init_decoder_cache / _init_wasm_decoder_cache: the topics mapped
\* variant: a decoder for every event of the contract's ABI
_topic_map_whole_abi ==
    {EventType.CREATED, EventType.RUN, EventType.RUN_WITH_METADATA,
     EventType.CANCELLED, "OwnershipTransferred"}

\* the event names the decoder caches hold (_init_decoder_cache,
\* _init_wasm_decoder_cache), standing for their topic hashes
_topic_map == {EventType.CREATED, EventType.RUN, EventType.RUN_WITH_METADATA,
               EventType.CANCELLED}
_wasm_topic_map == {WASM_CREATED, WASM_UPDATED}

\* the registry address is set and is not the "--" sentinel
WasmConfigured(c) ==
    /\ chain_doc[c].wasm_registry_contract_address # ""
    /\ chain_doc[c].wasm_registry_contract_address # "--"

\* ChainWorker.get_block_timestamp (@cache): the cached value when there is one,
\* else the node's answer, cached whether it is a timestamp or None
get_block_timestamp(cache, block_number, tsFail) ==
    IF block_number \in DOMAIN cache THEN cache
    ELSE DictSet(cache, block_number, IF block_number \in tsFail THEN "none" ELSE "ok")

\* decoder.process_log: the typed event of a raw log
process_log(raw) ==
    [name |-> raw.topic, ipfsHash |-> raw.ipfsHash, nonce |-> raw.nonce, id |-> raw.id,
     oldIpfsHash |-> raw.oldIpfsHash, newIpfsHash |-> raw.newIpfsHash,
     owner |-> raw.owner, blockNumber |-> raw.blockNumber,
     transactionHash |-> raw.transactionHash]

\* The decode loop of _process_registry_batch / _process_wasm_batch from raw log
\* i on: unknown topics skipped, logs without timestamp skipped, and the decode
\* or the receipt fetch of log failAt raising.
RECURSIVE DecodeLogs(_, _, _, _, _, _)
DecodeLogs(raw_logs, i, topic_map, cache, tsFail, failAt) ==
    IF i > Len(raw_logs) THEN [events |-> <<>>, cache |-> cache, raised |-> FALSE]
    ELSE IF raw_logs[i].topic \notin topic_map
    THEN DecodeLogs(raw_logs, i + 1, topic_map, cache, tsFail, failAt)
    ELSE LET cache1 == get_block_timestamp(cache, raw_logs[i].blockNumber, tsFail)
         IN  IF cache1[raw_logs[i].blockNumber] = "none"
             THEN DecodeLogs(raw_logs, i + 1, topic_map, cache1, tsFail, failAt)
             ELSE IF i = failAt
             THEN [events |-> <<>>, cache |-> cache1, raised |-> TRUE]
             ELSE LET rest == DecodeLogs(raw_logs, i + 1, topic_map, cache1, tsFail, failAt)
                  IN  [rest EXCEPT !.events = <<process_log(raw_logs[i])>> \o @]

\* the reducer of one decoded event (the if/elif chains of the two batch methods)
Reduce(S, evt, chain_id) ==
    CASE evt.name = EventType.CREATED -> parse_created(S, evt, chain_id)
      [] evt.name = EventType.RUN -> parse_run(S, evt, chain_id)
      [] evt.name = EventType.RUN_WITH_METADATA -> parse_run_with_metadata(S, evt, chain_id)
      [] evt.name = EventType.CANCELLED -> parse_cancelled(S, evt, chain_id)
      [] evt.name = WASM_CREATED -> parse_wasm_created(S, evt, chain_id)
      [] evt.name = WASM_UPDATED -> parse_wasm_updated(S, evt, chain_id)
      [] OTHER -> S

\* the reducer loop inside the batch transaction, from event k on; the reducer
\* of event failAt raises (a storage error)
RECURSIVE ApplyReducers(_, _, _, _, _)
ApplyReducers(S, events, k, chain_id, failAt) ==
    IF k > Len(events) THEN [view |-> S, raised |-> FALSE]
    ELSE IF k = failAt THEN [view |-> S, raised |-> TRUE]
    ELSE ApplyReducers(Reduce(S, events[k], chain_id), events, k + 1, chain_id, failAt)

\* variant: the height itself is taken as the last block to index
latest_block_no_delay(c) == current_block[c]

\* latest_block = current_block - self.block_delay, for the height read at the
\* start of the iteration
latest_block(c) == current_block[c] - chain_doc[c].block_delay
\* the next value of range(start, latest_block + 1, batch_size)
next_batch_start(c) == batch_start[c] + chain_doc[c].batch_size
\* variant: the end of a range computed without the "- 1"
batch_end_off_by_one(c) == Min(batch_start[c] + chain_doc[c].batch_size, latest_block(c))

\* variant: a range always spans batch_size blocks, past the safe block if need be
batch_end_uncapped(c) == batch_start[c] + chain_doc[c].batch_size - 1

\* end = min(start + batch_size - 1, latest_block)
batch_end(c) == Min(batch_start[c] + chain_doc[c].batch_size - 1, latest_block(c))

\* the blocks of a range whose logs were never fetched yet
Unfetched(c, r, from, to) == (from..to) \ DOMAIN chainlog[c][r]

Fetch(c, r, content) ==
    [chainlog EXCEPT ![c][r] =
        [b \in DOMAIN @ \cup DOMAIN content |->
            IF b \in DOMAIN @ THEN @[b] ELSE content[b]]]

\* where process_chain goes once the main registry's batches are done
AfterRegistry(c, latest, wasm_cursor) ==
    IF WasmConfigured(c) /\ latest >= wasm_cursor + 1
    THEN /\ pc' = [pc EXCEPT ![c] = "wasm"]
         /\ batch_start' = [batch_start EXCEPT ![c] = wasm_cursor + 1]
    ELSE /\ pc' = [pc EXCEPT ![c] = "sync"]
         /\ UNCHANGED batch_start

\* variant: the chains are worked through by one thread, a chain's iteration
\* starting only when no other chain is inside one
ProcessChainStart_one_at_a_time(c) ==
    /\ pc[c] = "start"
    /\ \A other \in Chains \ {c} : pc[other] = "start"
    /\ last_processed' = [last_processed EXCEPT ![c] = chains[c].last_processed_block]
    /\ wasm_last_processed' =
            [wasm_last_processed EXCEPT ![c] = chains[c].wasm_last_processed_block]
    /\ current_block' = [current_block EXCEPT ![c] = head[c]]
    /\ LET latest == head[c] - chain_doc[c].block_delay
           registry_start_block == chains[c].last_processed_block + 1
       IN  IF latest >= registry_start_block
           THEN /\ pc' = [pc EXCEPT ![c] = "registry"]
                /\ batch_start' = [batch_start EXCEPT ![c] = registry_start_block]
           ELSE AfterRegistry(c, latest, chains[c].wasm_last_processed_block)
    /\ last_event' = [last_event EXCEPT ![c] = "none"]
    /\ UNCHANGED <<storeVars, envVars, chain_doc, ts_cache, txn, metaVars, wasmFillerVars>>

\* process_chain, its head: the cursors reloaded from the store, the height read,
\* the first range chosen
ProcessChainStart(c) ==
    /\ pc[c] = "start"
    /\ last_processed' = [last_processed EXCEPT ![c] = chains[c].last_processed_block]
    /\ wasm_last_processed' =
            [wasm_last_processed EXCEPT ![c] = chains[c].wasm_last_processed_block]
    /\ current_block' = [current_block EXCEPT ![c] = head[c]]
    /\ LET latest == head[c] - chain_doc[c].block_delay
           registry_start_block == chains[c].last_processed_block + 1
       IN  IF latest >= registry_start_block
           THEN /\ pc' = [pc EXCEPT ![c] = "registry"]
                /\ batch_start' = [batch_start EXCEPT ![c] = registry_start_block]
           ELSE AfterRegistry(c, latest, chains[c].wasm_last_processed_block)
    /\ last_event' = [last_event EXCEPT ![c] = "none"]
    /\ UNCHANGED <<storeVars, envVars, chain_doc, ts_cache, txn, metaVars, wasmFillerVars>>

\* what may go wrong in an attempt: the log fetch, a block lookup for the
\* timestamp, the decoding or receipt fetch of a log, a reducer
AllFaults == {"get_logs", "get_block", "decode", "reducer"}

\* One attempt of a batch up to the end of its reducers (r = "main":
\* _process_registry_batch, r = "wasm": _process_wasm_batch): the logs fetched and
\* decoded, the transaction opened and every reducer run, the cursor set to
\* batch_end in the same transaction.  Any error leaves the worker on the same
\* batch (the retry loop of process_chain).
ProcessBatch(c, r, menu, faults) ==
    LET from == batch_start[c]
        to == batch_end(c)
        topic_map == IF r = "main" THEN _topic_map ELSE _wasm_topic_map
    IN
    \E content \in [Unfetched(c, r, from, to) -> menu],
       rpcOk \in (IF "get_logs" \in faults THEN BOOLEAN ELSE {TRUE}),
       tsFail \in (IF "get_block" \in faults THEN SUBSET (from..to) ELSE {{}}) :
        \E log \in {Fetch(c, r, content)} :
        \E raw_logs \in {get_logs(log[c][r], c, r, from, to)} :
        \E failAt \in (IF "decode" \in faults THEN 0..Len(raw_logs) ELSE {0}) :
            \E dec \in {DecodeLogs(raw_logs, 1, topic_map, ts_cache[c], tsFail, failAt)} :
            \E reducerFailAt \in (IF "reducer" \in faults THEN 0..Len(dec.events) ELSE {0}) :
                \E red \in {ApplyReducers(Store, dec.events, 1, c, reducerFailAt)} :
                \E view \in {IF r = "main"
                              THEN update_chain_last_processed(red.view, c, to)
                              ELSE update_chain_wasm_last_processed(red.view, c, to)} :
                IF ~rpcOk
                THEN /\ last_event' = [last_event EXCEPT ![c] = "get_logs failed"]
                     /\ UNCHANGED <<storeVars, chainlog, ts_cache, pc, txn>>
                ELSE /\ chainlog' = log
                     /\ ts_cache' = [ts_cache EXCEPT ![c] = dec.cache]
                     /\ IF dec.raised
                        THEN /\ last_event' = [last_event EXCEPT ![c] = "decode failed"]
                             /\ UNCHANGED <<storeVars, pc, txn>>
                        ELSE IF red.raised
                        THEN /\ SetStore(db_session(Store, Store, red.view, FALSE))
                             /\ last_event' = [last_event EXCEPT ![c] = "reducer failed"]
                             /\ UNCHANGED <<pc, txn>>
                        ELSE /\ txn' = [txn EXCEPT ![c] =
                                    [active |-> TRUE, snap |-> Store, view |-> view,
                                     decoded |-> dec.events, batch_end |-> to]]
                             /\ pc' = [pc EXCEPT ![c] =
                                    IF r = "main" THEN "registry_commit" ELSE "wasm_commit"]
                             /\ last_event' = [last_event EXCEPT ![c] = "none"]
                             /\ UNCHANGED storeVars

\* _process_registry_batch up to the commit
_process_registry_batch(c, menu, faults) ==
    /\ pc[c] = "registry"
    /\ ProcessBatch(c, "main", menu, faults)
    /\ UNCHANGED <<head, ipfs, now, chain_doc, last_processed, wasm_last_processed,
                   current_block, batch_start, metaVars, wasmFillerVars>>

\* variant: process_chain without its retry loop and run() without its handler:
\* a failed commit ends the worker's thread
RegistryCommit_no_retry(c) ==
    /\ pc[c] = "registry_commit"
    /\ \E ok \in BOOLEAN :
        LET committed == ok /\ ~WriteConflict(Store, txn[c].snap, txn[c].view)
            next_start == next_batch_start(c)
        IN  /\ SetStore(db_session(Store, txn[c].snap, txn[c].view, ok))
            /\ last_event' = [last_event EXCEPT ![c] =
                    IF committed THEN "committed" ELSE "commit failed"]
            /\ IF committed
               THEN /\ last_processed' = [last_processed EXCEPT ![c] = txn[c].batch_end]
                    /\ IF next_start <= latest_block(c)
                       THEN /\ pc' = [pc EXCEPT ![c] = "registry"]
                            /\ batch_start' = [batch_start EXCEPT ![c] = next_start]
                       ELSE AfterRegistry(c, latest_block(c), wasm_last_processed[c])
               ELSE /\ pc' = [pc EXCEPT ![c] = "stopped"]
                    /\ UNCHANGED <<last_processed, batch_start>>
    /\ txn' = [txn EXCEPT ![c] = NoTxn]
    /\ UNCHANGED <<envVars, chain_doc, wasm_last_processed, current_block, ts_cache,
                   metaVars, wasmFillerVars>>

\* variant: a batch whose commit failed is given up and process_chain goes on
\* to the WASM registry
RegistryCommit_gives_up(c) ==
    /\ pc[c] = "registry_commit"
    /\ \E ok \in BOOLEAN :
        LET committed == ok /\ ~WriteConflict(Store, txn[c].snap, txn[c].view)
            next_start == next_batch_start(c)
        IN  /\ SetStore(db_session(Store, txn[c].snap, txn[c].view, ok))
            /\ last_event' = [last_event EXCEPT ![c] =
                    IF committed THEN "committed" ELSE "commit failed"]
            /\ IF committed
               THEN /\ last_processed' = [last_processed EXCEPT ![c] = txn[c].batch_end]
                    /\ IF next_start <= latest_block(c)
                       THEN /\ pc' = [pc EXCEPT ![c] = "registry"]
                            /\ batch_start' = [batch_start EXCEPT ![c] = next_start]
                       ELSE AfterRegistry(c, latest_block(c), wasm_last_processed[c])
               ELSE /\ AfterRegistry(c, latest_block(c), wasm_last_processed[c])
                    /\ UNCHANGED last_processed
    /\ txn' = [txn EXCEPT ![c] = NoTxn]
    /\ UNCHANGED <<envVars, chain_doc, wasm_last_processed, current_block, ts_cache,
                   metaVars, wasmFillerVars>>

\* the commit ending _process_registry_batch, and the step of process_chain's
\* loop after it: on success the next range, on failure the same one again
RegistryCommit(c) ==
    /\ pc[c] = "registry_commit"
    /\ \E ok \in BOOLEAN :
        LET committed == ok /\ ~WriteConflict(Store, txn[c].snap, txn[c].view)
            next_start == next_batch_start(c)
        IN  /\ SetStore(db_session(Store, txn[c].snap, txn[c].view, ok))
            /\ last_event' = [last_event EXCEPT ![c] =
                    IF committed THEN "committed" ELSE "commit failed"]
            /\ IF committed
               THEN /\ last_processed' = [last_processed EXCEPT ![c] = txn[c].batch_end]
                    /\ IF next_start <= latest_block(c)
                       THEN /\ pc' = [pc EXCEPT ![c] = "registry"]
                            /\ batch_start' = [batch_start EXCEPT ![c] = next_start]
                       ELSE AfterRegistry(c, latest_block(c), wasm_last_processed[c])
               ELSE /\ pc' = [pc EXCEPT ![c] = "registry"]
                    /\ UNCHANGED <<last_processed, batch_start>>
    /\ txn' = [txn EXCEPT ![c] = NoTxn]
    /\ UNCHANGED <<envVars, chain_doc, wasm_last_processed, current_block, ts_cache,
                   metaVars, wasmFillerVars>>

\* _process_wasm_batch up to the commit
_process_wasm_batch(c, menu, faults) ==
    /\ pc[c] = "wasm"
    /\ ProcessBatch(c, "wasm", menu, faults)
    /\ UNCHANGED <<head, ipfs, now, chain_doc, last_processed, wasm_last_processed,
                   current_block, batch_start, metaVars, wasmFillerVars>>

\* the commit ending _process_wasm_batch and the loop step after it
WasmCommit(c) ==
    /\ pc[c] = "wasm_commit"
    /\ \E ok \in BOOLEAN :
        LET committed == ok /\ ~WriteConflict(Store, txn[c].snap, txn[c].view)
            next_start == next_batch_start(c)
        IN  /\ SetStore(db_session(Store, txn[c].snap, txn[c].view, ok))
            /\ last_event' = [last_event EXCEPT ![c] =
                    IF committed THEN "committed" ELSE "commit failed"]
            /\ IF committed
               THEN /\ wasm_last_processed' =
                            [wasm_last_processed EXCEPT ![c] = txn[c].batch_end]
                    /\ IF next_start <= latest_block(c)
                       THEN /\ pc' = [pc EXCEPT ![c] = "wasm"]
                            /\ batch_start' = [batch_start EXCEPT ![c] = next_start]
                       ELSE /\ pc' = [pc EXCEPT ![c] = "sync"]
                            /\ UNCHANGED batch_start
               ELSE /\ pc' = [pc EXCEPT ![c] = "wasm"]
                    /\ UNCHANGED <<wasm_last_processed, batch_start>>
    /\ txn' = [txn EXCEPT ![c] = NoTxn]
    /\ UNCHANGED <<envVars, chain_doc, last_processed, current_block, ts_cache,
                   metaVars, wasmFillerVars>>

\* variant: a registry exactly sync_threshold_blocks behind counts as synced
ComputeIsSynced_inclusive(c) ==
    /\ current_block[c] - last_processed[c] <= chain_doc[c].sync_threshold_blocks
    /\ WasmConfigured(c) =>
            current_block[c] - wasm_last_processed[c] <= chain_doc[c].sync_threshold_blocks

\* the is_synced flag process_chain computes from its cursors
ComputeIsSynced(c) ==
    LET registry_blocks_behind == current_block[c] - last_processed[c]
        registry_is_synced == registry_blocks_behind < chain_doc[c].sync_threshold_blocks
        wasm_is_synced ==
            IF WasmConfigured(c)
            THEN current_block[c] - wasm_last_processed[c]
                    < chain_doc[c].sync_threshold_blocks
            ELSE TRUE
    IN  registry_is_synced /\ wasm_is_synced

\* process_chain, its tail: the sync flag written when it changed; then run()
\* sleeps and the next iteration starts (also when the transaction raised)
SyncStatus(c) ==
    /\ pc[c] = "sync"
    /\ \E ok \in BOOLEAN :
        LET is_synced == ComputeIsSynced(c)
            current_sync_status == chains[c].is_synced
            view == IF is_synced # current_sync_status
                    THEN update_chain_sync_status(Store, c, is_synced)
                    ELSE Store
        IN  /\ SetStore(db_session(Store, Store, view, ok))
            /\ last_event' = [last_event EXCEPT ![c] =
                    IF ~ok THEN "sync failed"
                    ELSE IF is_synced # current_sync_status THEN "sync written"
                    ELSE "sync unchanged"]
    /\ pc' = [pc EXCEPT ![c] = "start"]
    /\ UNCHANGED <<envVars, chain_doc, last_processed, wasm_last_processed,
                   current_block, batch_start, ts_cache, txn, metaVars, wasmFillerVars>>

\* the node reports one more block
NewBlock(c) ==
    /\ SumValues(head) < MaxHead
    /\ head' = [head EXCEPT ![c] = @ + 1]
    /\ UNCHANGED <<storeVars, chainlog, ipfs, now, chain_doc, workerVars, metaVars, wasmFillerVars>>

\* datetime.utcnow() advances by an hour
Tick ==
    /\ now < MaxTime
    /\ now' = now + 1
    /\ UNCHANGED <<storeVars, head, chainlog, ipfs, chain_doc, workerVars, metaVars,
                   wasmFillerVars>>

\* ------------------------------------------------------- metadata filler
\* the one_hour_ago of the batch lookups, the clock counting hours
one_hour_ago == now - 1

\* ---- content hashes.  A hash is named by a token; CidText gives the string the
\* token stands for, as the sequence of its characters' code points.
Rep(ch, n) == [i \in 1..n |-> ch]

\* "Qm" followed by 44 characters of the base58 alphabet
TextV0 == <<81, 109>> \o Rep(88, 22) \o Rep(122, 21) \o <<57>>
\* "bafy" followed by 55 letters and digits
TextV1 == <<98, 97, 102, 121>> \o Rep(98, 30) \o Rep(50, 24) \o <<90>>

CidText ==
    ("h1" :> TextV0) @@
    ("h2" :> TextV1) @@
    \* "not-a-cid"
    ("x1" :> <<110, 111, 116, 45, 97, 45, 99, 105, 100>>) @@
    ("empty" :> <<>>) @@
    ("v0 short" :> SubSeq(TextV0, 1, 45)) @@
    ("v0 long" :> TextV0 \o <<88>>) @@
    ("v0 zero" :> [TextV0 EXCEPT ![10] = 48]) @@
    ("v0 letter l" :> [TextV0 EXCEPT ![46] = 108]) @@
    ("v0 letter O" :> [TextV0 EXCEPT ![3] = 79]) @@
    ("v0 letter I" :> [TextV0 EXCEPT ![20] = 73]) @@
    ("v0 prefix Qn" :> [TextV0 EXCEPT ![2] = 110]) @@
    ("v0 prefix qm" :> [TextV0 EXCEPT ![1] = 113]) @@
    ("v0 leading space" :> <<32>> \o TextV0) @@
    ("v0 inner line feed" :> [TextV0 EXCEPT ![30] = 10]) @@
    ("v0 line feed" :> TextV0 \o <<10>>) @@
    ("v0 two line feeds" :> TextV0 \o <<10, 10>>) @@
    ("v0 carriage return" :> TextV0 \o <<13>>) @@
    ("v0 body of v1" :> <<81, 109>> \o SubSeq(TextV1, 5, 59)) @@
    ("v1 short" :> SubSeq(TextV1, 1, 58)) @@
    ("v1 long" :> TextV1 \o <<50>>) @@
    ("v1 hyphen" :> [TextV1 EXCEPT ![40] = 45]) @@
    ("v1 arabic digit" :> [TextV1 EXCEPT ![40] = 1632]) @@
    ("v1 prefix bafk" :> [TextV1 EXCEPT ![4] = 107]) @@
    ("v1 body of v0" :> <<98, 97, 102, 121>> \o SubSeq(TextV0, 3, 46)) @@
    ("v1 line feed" :> TextV1 \o <<10>>)

\* the character classes of the two patterns
\* [1-9A-HJ-NP-Za-km-z]
Base58Chars ==
    (49..57) \cup (65..72) \cup (74..78) \cup (80..90) \cup (97..107) \cup (109..122)
\* [a-zA-Z0-9]
AlnumChars == (97..122) \cup (65..90) \cup (48..57)

\* pattern.match(text) for a pattern "^" prefix class{count} "$": the match
\* starts at the first character, and "$" matches at the end of the string and
\* also just before a line feed that ends the string
PatternMatch(text, prefix, class, count) ==
    LET n == Len(prefix) + count
    IN  /\ Len(text) >= n
        /\ SubSeq(text, 1, Len(prefix)) = prefix
        /\ \A i \in (Len(prefix) + 1)..n : text[i] \in class
        /\ \/ Len(text) = n
           \/ (Len(text) = n + 1 /\ text[n + 1] = 10)

\* re.compile(r"^Qm[1-9A-HJ-NP-Za-km-z]{44}$")
IPFS_CID_V0_PATTERN(text) == PatternMatch(text, <<81, 109>>, Base58Chars, 44)
\* re.compile(r"^bafy[a-zA-Z0-9]{55}$")
IPFS_CID_V1_PATTERN(text) == PatternMatch(text, <<98, 97, 102, 121>>, AlnumChars, 55)

\* validate_ipfs_cid: False for the empty string, else whether one of the two
\* patterns matches
validate_ipfs_cid(cid) ==
    LET ipfs_hash == CidText[cid]
    IN  IF ipfs_hash = <<>> THEN FALSE
        ELSE IPFS_CID_V0_PATTERN(ipfs_hash) \/ IPFS_CID_V1_PATTERN(ipfs_hash)

\* variant: the lookup skips every item that failed within the hour
find_workflows_without_meta_batch_window_only(S, limit) ==
    LET Match(d) ==
            /\ d.has_meta = FALSE
            /\ \/ d.meta_fetch_last_failed = NoTime
               \/ d.meta_fetch_last_failed < one_hour_ago
        M == {i \in 1..Len(S.workflows) : Match(S.workflows[i])}
    IN  {i \in M : Cardinality({j \in M : j < i}) < limit}

\* Database.find_workflows_without_meta_batch(limit, skip_recent_failures=True):
\* the positions of the first `limit` matching documents
find_workflows_without_meta_batch(S, limit) ==
    LET Match(d) ==
            /\ d.has_meta = FALSE
            /\ \/ d.meta_fetch_last_failed = NoTime
               \/ d.meta_fetch_last_failed < one_hour_ago
               \/ (d.meta_fetch_failure_count > 0 /\ d.meta_fetch_failure_count < FAILURE_CAP)
        M == {i \in 1..Len(S.workflows) : Match(S.workflows[i])}
    IN  {i \in M : Cardinality({j \in M : j < i}) < limit}

\* Database.mark_workflow_meta_failure
mark_workflow_meta_failure(S, workflow_ipfs_hash) ==
    LET i == find_workflow_by_ipfs(S, workflow_ipfs_hash)
    IN  IF i = 0 THEN S
        ELSE [S EXCEPT !.workflows[i] =
                SetFields(@, [meta_fetch_last_failed |-> now,
                              meta_fetch_failure_count |-> @.meta_fetch_failure_count + 1])]

\* Database.clear_workflow_meta_failures
clear_workflow_meta_failures(S, workflow_ipfs_hash) ==
    LET i == find_workflow_by_ipfs(S, workflow_ipfs_hash)
    IN  IF i = 0 THEN S
        ELSE [S EXCEPT !.workflows[i] =
                SetFields(@, [meta_fetch_last_failed |-> NoTime,
                              meta_fetch_failure_count |-> 0])]

\* "." in k or (k and k[0] == "$")
InvalidKey(k) == (\E i \in 1..Len(k) : k[i] = ".") \/ (Len(k) > 0 /\ k[1] = "$")

\* variant: only the keys of the outermost object are looked at
has_invalid_mongo_keys_top_level(obj) ==
    obj.kind = "dict" /\ \E i \in 1..Len(obj.items) : InvalidKey(obj.items[i].key)

\* has_invalid_mongo_keys: whether it returns a path (TRUE) or None (FALSE)
RECURSIVE has_invalid_mongo_keys(_)
has_invalid_mongo_keys(obj) ==
    IF obj.kind = "dict"
    THEN \E i \in 1..Len(obj.items) :
            InvalidKey(obj.items[i].key) \/ has_invalid_mongo_keys(obj.items[i].value)
    ELSE IF obj.kind = "list"
    THEN \E i \in 1..Len(obj.items) : has_invalid_mongo_keys(obj.items[i].value)
    ELSE FALSE

\* variant: the filler writes the flag it computed, cancelled or not
FillOne_writes_flag(S, wf, fetched) ==
    IF ~fetched.present THEN mark_workflow_meta_failure(S, wf.ipfs_hash)
    ELSE IF has_invalid_mongo_keys(fetched.body)
    THEN mark_workflow_meta_failure(S, wf.ipfs_hash)
    ELSE clear_workflow_meta_failures(
            update_workflow(S, wf.ipfs_hash,
                [meta |-> fetched, has_meta |-> TRUE,
                 is_cancelled |-> (fetched.has_count /\ wf.runs >= fetched.count)]),
            wf.ipfs_hash)

\* variant: the filler stores the metadata without looking at the count
FillOne_ignores_count(S, wf, fetched) ==
    IF ~fetched.present THEN mark_workflow_meta_failure(S, wf.ipfs_hash)
    ELSE IF has_invalid_mongo_keys(fetched.body)
    THEN mark_workflow_meta_failure(S, wf.ipfs_hash)
    ELSE clear_workflow_meta_failures(
            update_workflow(S, wf.ipfs_hash, [meta |-> fetched, has_meta |-> TRUE]),
            wf.ipfs_hash)

\* the body of meta_filler_worker's per-item loop for the workflow wf found by the
\* batch lookup: fetched is the payload fetch_ipfs_meta returned, or NoMeta for None
FillOne(S, wf, fetched) ==
    IF ~fetched.present THEN mark_workflow_meta_failure(S, wf.ipfs_hash)
    ELSE IF has_invalid_mongo_keys(fetched.body)
    THEN mark_workflow_meta_failure(S, wf.ipfs_hash)
    ELSE LET update_fields ==
                IF fetched.has_count /\ wf.runs >= fetched.count
                THEN [meta |-> fetched, has_meta |-> TRUE, is_cancelled |-> TRUE]
                ELSE [meta |-> fetched, has_meta |-> TRUE]
         IN  clear_workflow_meta_failures(
                update_workflow(S, wf.ipfs_hash, update_fields), wf.ipfs_hash)

\* fetch_ipfs_meta: None for a malformed CID or a failed request, else the
\* document the content store holds
fetch_ipfs_meta(cid, store, reachable) ==
    IF ~validate_ipfs_cid(cid) THEN NoMeta
    ELSE IF ~reachable THEN NoMeta
    ELSE store[cid]

\* what may happen to an item of the batch: nothing, the request to the content
\* store fails, the item's handling raises after the fetch
ItemOutcomes == {"ok", "unreachable", "error"}

\* the per-item loop over the batch, in the order of the lookup's result; the
\* handler of an item that raised marks its failure in the same transaction
RECURSIVE FillBatch(_, _, _, _, _)
FillBatch(S, found, todo, fetched, raised) ==
    IF todo = {} THEN S
    ELSE CHOOSE after \in
            {FillBatch(IF i \in raised
                       THEN mark_workflow_meta_failure(T, found[i].ipfs_hash)
                       ELSE FillOne(T, found[i], fetched[i]),
                       found, rest, fetched, raised) :
                T \in {S}, i \in {x \in todo : \A y \in todo : x <= y},
                rest \in {{x \in todo : \E y \in todo : y < x}}} : TRUE

\* meta_filler_worker, one iteration up to its commit: the batch looked up and
\* every item fetched and handled inside one transaction (the failure counts
\* explored stay at or below cap)
MetaBatchUpTo(menu, outcomes, cap) ==
    /\ meta_pc = "idle"
    /\ LET batch == find_workflows_without_meta_batch(Store, META_FILLER_BATCH_SIZE)
       IN  /\ batch # {}
           /\ \E outcome \in [batch -> outcomes] :
                LET answered == {workflows[i].ipfs_hash :
                                    i \in {j \in batch :
                                            /\ outcome[j] # "unreachable"
                                            /\ validate_ipfs_cid(workflows[j].ipfs_hash)}}
                IN  \E content \in [answered \ DOMAIN ipfs -> menu] :
                        LET store == [h \in DOMAIN ipfs \cup DOMAIN content |->
                                        IF h \in DOMAIN ipfs THEN ipfs[h] ELSE content[h]]
                            fetched == [i \in batch |->
                                            fetch_ipfs_meta(workflows[i].ipfs_hash, store,
                                                            outcome[i] # "unreachable")]
                            raised == {i \in batch : outcome[i] = "error"}
                        IN  \E view \in {FillBatch(Store, workflows, batch, fetched, raised)} :
                            /\ \A i \in 1..Len(view.workflows) :
                                    view.workflows[i].meta_fetch_failure_count <= cap
                            /\ ipfs' = store
                            /\ meta_txn' = [active |-> TRUE, snap |-> Store, view |-> view]
    /\ meta_pc' = "commit"
    /\ UNCHANGED <<storeVars, head, chainlog, now, chain_doc, workerVars, wasmFillerVars>>

\* the same where no workflow records more than MaxFailures failures
MetaBatch(menu, outcomes) == MetaBatchUpTo(menu, outcomes, MaxFailures)

\* the commit ending the filler's transaction
MetaCommit ==
    /\ meta_pc = "commit"
    /\ \E ok \in BOOLEAN :
        SetStore(db_session(Store, meta_txn.snap, meta_txn.view, ok))
    /\ meta_pc' = "idle"
    /\ meta_txn' = NoTxn
    /\ UNCHANGED <<envVars, chain_doc, workerVars, wasmFillerVars>>

\* ------------------------------------------------------------ WASM filler
\* the first bytes of a WASM binary, b"\x00asm"
WASM_MAGIC == <<0, 97, 115, 109>>

\* variant: only the length of the payload is checked
InvalidWasm_length_only(code) == Len(code) < 4

\* the payload check of wasm_filler_worker: too short or not starting with the magic
InvalidWasm(code) == Len(code) < 4 \/ SubSeq(code, 1, 4) # WASM_MAGIC

\* what fetch_ipfs_wasm returns
NoPayload == [present |-> FALSE, bytes |-> <<>>]

\* fetch_ipfs_wasm: None for a malformed CID or a failed request, else the bytes
fetch_ipfs_wasm(cid, content, reachable) ==
    IF ~validate_ipfs_cid(cid) THEN NoPayload
    ELSE IF ~reachable THEN NoPayload
    ELSE [present |-> TRUE, bytes |-> content]

\* variant: a module is looked up again while it has at most three failures
find_wasms_without_code_batch_up_to_cap(S, limit) ==
    LET Match(d) ==
            /\ d.has_wasm = FALSE
            /\ \/ d.wasm_fetch_last_failed = NoTime
               \/ d.wasm_fetch_last_failed < one_hour_ago
               \/ (d.wasm_fetch_failure_count > 0 /\ d.wasm_fetch_failure_count <= FAILURE_CAP)
        M == {i \in 1..Len(S.wasm_modules) : Match(S.wasm_modules[i])}
    IN  {i \in M : Cardinality({j \in M : j < i}) < limit}

\* Database.find_wasms_without_code_batch(limit, skip_recent_failures=True): the
\* positions of the first `limit` matching documents
find_wasms_without_code_batch(S, limit) ==
    LET Match(d) ==
            /\ d.has_wasm = FALSE
            /\ \/ d.wasm_fetch_last_failed = NoTime
               \/ d.wasm_fetch_last_failed < one_hour_ago
               \/ (d.wasm_fetch_failure_count > 0 /\ d.wasm_fetch_failure_count < FAILURE_CAP)
        M == {i \in 1..Len(S.wasm_modules) : Match(S.wasm_modules[i])}
    IN  {i \in M : Cardinality({j \in M : j < i}) < limit}

\* Database.mark_wasm_fetch_failure
mark_wasm_fetch_failure(S, wasm_id) ==
    LET i == find_wasm_by_id(S, wasm_id)
    IN  IF i = 0 THEN S
        ELSE [S EXCEPT !.wasm_modules[i] =
                SetFields(@, [wasm_fetch_last_failed |-> now,
                              wasm_fetch_failure_count |-> @.wasm_fetch_failure_count + 1])]

\* Database.clear_wasm_fetch_failures
clear_wasm_fetch_failures(S, wasm_id) ==
    LET i == find_wasm_by_id(S, wasm_id)
    IN  IF i = 0 THEN S
        ELSE [S EXCEPT !.wasm_modules[i] =
                SetFields(@, [wasm_fetch_last_failed |-> NoTime,
                              wasm_fetch_failure_count |-> 0])]

\* variant: the same sleep before every retry
RetryDelay_constant(a) == RETRY_BASE_DELAY

\* the sleep before the retry that follows attempt number a (0-based), in units
\* of RETRY_BASE_DELAY
RetryDelay(a) == RETRY_BASE_DELAY * (2 ^ a)

\* what a storage operation of the filler may meet: nothing, a transient error
\* (code 112 or 251), another error
StorageOutcomes == {"ok", "transient", "error"}

\* the filler goes on to the next module of its batch, or sleeps when none is left
NextModule ==
    /\ wasms' = Tail(wasms)
    /\ wasm_pc' = IF Len(wasms) > 1 THEN "fetch" ELSE "idle"
    /\ wasm_code' = NoCode
    /\ attempt' = 0
    /\ slept' = <<>>

\* wasm_filler_worker, the batch lookup (outside any transaction)
WasmLookup ==
    /\ wasm_pc = "idle"
    /\ LET found == find_wasms_without_code_batch(Store, META_FILLER_BATCH_SIZE)
           Nth(k) == CHOOSE i \in found : Cardinality({j \in found : j < i}) = k - 1
       IN  /\ found # {}
           /\ wasms' = [k \in 1..Cardinality(found) |-> wasm_modules[Nth(k)]]
    /\ wasm_pc' = "fetch"
    /\ wasm_event' = "none"
    /\ UNCHANGED <<storeVars, envVars, chain_doc, workerVars, metaVars, wasm_code,
                   attempt, slept>>

\* wasm_filler_worker, the head of the per-item loop: the code fetched (outside
\* any transaction) and checked
WasmFetch(menu, outcomes) ==
    /\ wasm_pc = "fetch"
    /\ LET cid == wasms[1].ipfs_hash
       IN  \E content \in (IF cid \in DOMAIN ipfs THEN {ipfs[cid]} ELSE menu),
              reachable \in outcomes :
            LET fetched == fetch_ipfs_wasm(cid, content, reachable)
            IN  /\ ipfs' = IF fetched.present THEN DictSet(ipfs, cid, content) ELSE ipfs
                /\ IF ~fetched.present
                   THEN /\ wasm_pc' = "mark"
                        /\ wasm_code' = NoCode
                        /\ wasm_event' = "fetch failed"
                   ELSE IF InvalidWasm(fetched.bytes)
                   THEN /\ wasm_pc' = "mark"
                        /\ wasm_code' = NoCode
                        /\ wasm_event' = "invalid wasm"
                   ELSE /\ wasm_pc' = "update"
                        /\ wasm_code' = fetched.bytes
                        /\ wasm_event' = "fetched"
    /\ attempt' = 0
    /\ slept' = <<>>
    /\ UNCHANGED <<storeVars, head, chainlog, now, chain_doc, workerVars, metaVars, wasms>>

\* _update_wasm_with_retry, one attempt: the module's code, size and flag set and
\* its failure fields cleared in one transaction; a transient error is retried
\* after a sleep while attempts are left; any error that is not retried is raised
\* and wasm_filler_worker's per-item handler goes on to mark the failure
WasmUpdateAttempt(outcomes) ==
    /\ wasm_pc = "update"
    /\ \E outcome \in outcomes :
        LET wasm_id == wasms[1].wasm_id
            update_fields == [wasm_code |-> wasm_code, wasm_code_size |-> Len(wasm_code),
                              has_wasm |-> TRUE]
        IN  IF outcome = "ok"
            THEN /\ \E view \in {clear_wasm_fetch_failures(
                                    update_wasm(Store, wasm_id, update_fields, EmptyDict),
                                    wasm_id)} :
                        SetStore(db_session(Store, Store, view, TRUE))
                 /\ wasm_event' = "stored"
                 /\ NextModule
            ELSE IF outcome = "transient" /\ attempt < MAX_RETRY_ATTEMPTS - 1
            THEN /\ attempt' = attempt + 1
                 /\ slept' = Append(slept, RetryDelay(attempt))
                 /\ UNCHANGED <<storeVars, wasm_pc, wasms, wasm_code, wasm_event>>
            ELSE /\ wasm_pc' = "mark"
                 /\ wasm_event' = IF outcome = "transient" THEN "retries exhausted"
                                  ELSE "update failed"
                 /\ attempt' = 0
                 /\ slept' = <<>>
                 /\ UNCHANGED <<storeVars, wasms, wasm_code>>
    /\ UNCHANGED <<envVars, chain_doc, workerVars, metaVars>>

\* _mark_wasm_failure_with_retry, one attempt: the failure recorded in its own
\* transaction; a transient error is retried after a sleep while attempts are
\* left; any error that is not retried is logged and nothing is recorded
WasmMarkAttempt(outcomes) ==
    /\ wasm_pc = "mark"
    /\ \E outcome \in outcomes :
        LET wasm_id == wasms[1].wasm_id
        IN  IF outcome = "ok"
            THEN /\ \E view \in {mark_wasm_fetch_failure(Store, wasm_id)} :
                        SetStore(db_session(Store, Store, view, TRUE))
                 /\ wasm_event' = "failure recorded"
                 /\ NextModule
            ELSE IF outcome = "transient" /\ attempt < MAX_RETRY_ATTEMPTS - 1
            THEN /\ attempt' = attempt + 1
                 /\ slept' = Append(slept, RetryDelay(attempt))
                 /\ UNCHANGED <<storeVars, wasm_pc, wasms, wasm_code, wasm_event>>
            ELSE /\ wasm_event' = "failure not recorded"
                 /\ NextModule
                 /\ UNCHANGED storeVars
    /\ UNCHANGED <<envVars, chain_doc, workerVars, metaVars>>

\* ------------------------------------------------------ start and restart
\* variant: start-up writes every configured chain's document anew
main_chains_reinserts(existing, cfg) ==
    [c \in DOMAIN cfg |->
        [last_processed_block |-> cfg[c].last_processed_block,
         wasm_last_processed_block |-> cfg[c].last_processed_block,
         is_synced |-> FALSE]]

\* main(): a configured chain missing from the chains collection is inserted
\* with the configured cursor; an existing document is left as it is
main_chains(existing, cfg) ==
    [c \in DOMAIN cfg |->
        IF c \in DOMAIN existing THEN existing[c]
        ELSE [last_processed_block |-> cfg[c].last_processed_block,
              wasm_last_processed_block |-> cfg[c].last_processed_block,
              is_synced |-> FALSE]]

\* the process is killed and started again: open transactions are lost, every
\* worker is constructed anew from the store's chain documents
Crash ==
    /\ SetStore([Store EXCEPT !.chains = main_chains(chains, chain_doc)])
    /\ pc' = [c \in Chains |-> "start"]
    /\ last_processed' = [c \in Chains |-> main_chains(chains, chain_doc)[c].last_processed_block]
    /\ wasm_last_processed' =
            [c \in Chains |-> main_chains(chains, chain_doc)[c].wasm_last_processed_block]
    /\ current_block' = [c \in Chains |-> 0]
    /\ batch_start' = [c \in Chains |-> 0]
    /\ ts_cache' = [c \in Chains |-> EmptyDict]
    /\ txn' = [c \in Chains |-> NoTxn]
    /\ last_event' = [c \in Chains |->
            IF pc[c] \in {"registry", "registry_commit", "wasm", "wasm_commit"}
            THEN "killed" ELSE "none"]
    /\ meta_pc' = "idle"
    /\ meta_txn' = NoTxn
    /\ wasm_pc' = "idle"
    /\ wasms' = <<>>
    /\ wasm_code' = NoCode
    /\ attempt' = 0
    /\ slept' = <<>>
    /\ wasm_event' = "none"
    /\ UNCHANGED <<envVars, chain_doc>>

\* the state when the process first starts with configuration cfg on a store
\* holding the given workflows, logs and modules
InitStore(cfg, wfs, lgs, mods) ==
    /\ chain_doc = cfg
    /\ chains = main_chains(EmptyDict, cfg)
    /\ logs = lgs
    /\ workflows = wfs
    /\ wasm_modules = mods
    /\ head = [c \in Chains |-> 0]
    /\ chainlog = [c \in Chains |-> [r \in {"main", "wasm"} |-> EmptyDict]]
    /\ ipfs = EmptyDict
    /\ now = 0
    /\ pc = [c \in Chains |-> "start"]
    /\ last_processed = [c \in Chains |-> cfg[c].last_processed_block]
    /\ wasm_last_processed = [c \in Chains |-> cfg[c].last_processed_block]
    /\ current_block = [c \in Chains |-> 0]
    /\ batch_start = [c \in Chains |-> 0]
    /\ ts_cache = [c \in Chains |-> EmptyDict]
    /\ txn = [c \in Chains |-> NoTxn]
    /\ last_event = [c \in Chains |-> "none"]
    /\ meta_pc = "idle"
    /\ meta_txn = NoTxn
    /\ wasm_pc = "idle"
    /\ wasms = <<>>
    /\ wasm_code = NoCode
    /\ attempt = 0
    /\ slept = <<>>
    /\ wasm_event = "none"

\* the same on a store that holds no module
InitWith(cfg, wfs, lgs) == InitStore(cfg, wfs, lgs, <<>>)

\* ------------------------------------------------------- specifications
\* what the registries may emit in one block
Created(h) == Template(EventType.CREATED, h, None, None, None)
Run(h) == Template(EventType.RUN, h, None, None, None)
RunWithMetadata(h, n) == Template(EventType.RUN_WITH_METADATA, h, n, None, None)
Cancelled(h) == Template(EventType.CANCELLED, h, None, None, None)
WasmCreated(id, h) == Template(WASM_CREATED, h, None, id, None)
WasmUpdated(id, h, new) == Template(WASM_UPDATED, h, None, id, new)
\* an event of the contract the worker has no decoder for
OtherEvent == Template("OwnershipTransferred", None, None, None, None)

\* Spec: the synchronization engine of one chain, which indexes both registries
\* in batches of two blocks behind one confirmation.
SyncConfig(size) ==
    [c \in {1} |->
        [batch_size |-> size, block_delay |-> 1, wasm_registry_contract_address |-> "0xW",
         sync_threshold_blocks |-> 1, last_processed_block |-> DEFAULT_LAST_PROCESSED_BLOCK]]

SyncMainMenu == {<<>>, <<Created("h1")>>, <<Run("h1")>>, <<OtherEvent>>}
SyncWasmMenu == {<<>>, <<WasmCreated("w1", "h1")>>}

Init == \E size \in 1..MaxBatchSize : InitWith(SyncConfig(size), <<>>, <<>>)

Next ==
    \/ \E c \in Chains : ProcessChainStart(c)
    \/ \E c \in Chains : _process_registry_batch(c, SyncMainMenu, AllFaults)
    \/ \E c \in Chains : RegistryCommit(c)
    \/ \E c \in Chains : _process_wasm_batch(c, SyncWasmMenu, AllFaults)
    \/ \E c \in Chains : WasmCommit(c)
    \/ \E c \in Chains : SyncStatus(c)
    \/ \E c \in Chains : NewBlock(c)
    \/ Crash

Spec == Init /\ [][Next]_vars

\* SpecReducers: two chains' workers and the metadata filler working on the same
\* workflow, each chain indexing its main registry only, block by block as the
\* blocks appear.  The store starts empty, or holding the workflow a Created
\* event of an earlier run made.
ReducerConfig ==
    [c \in {1, 2} |->
        [batch_size |-> 2, block_delay |-> 0, wasm_registry_contract_address |-> "--",
         sync_threshold_blocks |-> 2, last_processed_block |-> DEFAULT_LAST_PROCESSED_BLOCK]]

ReducerMenu ==
    {<<Created("h1")>>, <<Run("h1")>>, <<RunWithMetadata("h1", "n1")>>,
     <<Cancelled("h1")>>}

\* the payloads the content store may hold for a hash: no execution count, an
\* execution count of two, a key the document store rejects
PlainBody == JsonObject(<<Member(<<"n">>, JsonValue)>>)
DottedBody == JsonObject(<<Member(<<"a", ".", "b">>, JsonValue)>>)
MetaMenu ==
    {[present |-> TRUE, body |-> PlainBody, has_count |-> FALSE, count |-> 0],
     [present |-> TRUE, body |-> PlainBody, has_count |-> TRUE, count |-> 2],
     [present |-> TRUE, body |-> DottedBody, has_count |-> FALSE, count |-> 0]}

\* the store after the Created event of an earlier run (chain 1, block 0)
Seeded ==
    parse_created(EmptyStore(EmptyDict), RawLog(1, "main", 0, 1, Created("h1")), 1)

InitReducers ==
    \E seeded \in BOOLEAN :
        InitWith(ReducerConfig,
                 IF seeded THEN Seeded.workflows ELSE <<>>,
                 IF seeded THEN Seeded.logs ELSE <<>>)

NextReducers ==
    \/ \E c \in Chains : ProcessChainStart(c)
    \/ \E c \in Chains : _process_registry_batch(c, ReducerMenu, {})
    \/ \E c \in Chains : RegistryCommit(c)
    \/ \E c \in Chains : SyncStatus(c)
    \/ \E c \in Chains : SumValues(head) < MaxReducerBlocks /\ NewBlock(c)
    \/ MetaBatch(MetaMenu, {"ok"})
    \/ MetaCommit

SpecReducers == InitReducers /\ [][NextReducers]_vars

\* SpecWasm: one chain's worker indexing its WASM registry (its main registry
\* emits nothing) and the WASM filler, working on the same module.  The store
\* starts empty, or holding the module a WasmCreated event of an earlier run made.
WasmConfig(cs) ==
    [c \in cs |->
        [batch_size |-> 2, block_delay |-> 0, wasm_registry_contract_address |-> "0xW",
         sync_threshold_blocks |-> 2, last_processed_block |-> DEFAULT_LAST_PROCESSED_BLOCK]]

WasmMenu == {<<WasmCreated("w1", "h1")>>, <<WasmUpdated("w1", "h1", "h2")>>}

\* the payloads the content store may hold for a hash: a WASM binary, three bytes
\* of the magic, four bytes that are not the magic
CodeMenu == {<<0, 97, 115, 109, 1>>, <<0, 97, 115>>, <<1, 97, 115, 109>>}

\* the store after the WasmCreated event of an earlier run (chain 1, block 0)
SeededWasm ==
    parse_wasm_created(EmptyStore(EmptyDict),
                       RawLog(1, "wasm", 0, 1, WasmCreated("w1", "h1")), 1)

InitWasm ==
    \E seeded \in BOOLEAN :
        InitStore(WasmConfig({1}), <<>>,
                  IF seeded THEN SeededWasm.logs ELSE <<>>,
                  IF seeded THEN SeededWasm.wasm_modules ELSE <<>>)

NextWasm ==
    \/ \E c \in Chains : ProcessChainStart(c)
    \/ \E c \in Chains : _process_registry_batch(c, {<<>>}, {})
    \/ \E c \in Chains : RegistryCommit(c)
    \/ \E c \in Chains : _process_wasm_batch(c, WasmMenu, {})
    \/ \E c \in Chains : WasmCommit(c)
    \/ \E c \in Chains : SyncStatus(c)
    \/ \E c \in Chains : SumValues(head) < MaxWasmBlocks /\ NewBlock(c)
    \/ WasmLookup
    \/ WasmFetch(CodeMenu, BOOLEAN)
    \/ WasmUpdateAttempt(StorageOutcomes)
    \/ WasmMarkAttempt(StorageOutcomes)

SpecWasm == InitWasm /\ [][NextWasm]_vars

\* SpecMeta: the metadata filler working through a batch of three workflows an
\* earlier run created, one of them under a hash that is no CID, while one
\* chain's worker indexes runs of the first.  Requests to the content store may
\* fail and the handling of an item may raise.
MetaConfig ==
    [c \in {1} |->
        [batch_size |-> 2, block_delay |-> 0, wasm_registry_contract_address |-> "--",
         sync_threshold_blocks |-> 2, last_processed_block |-> DEFAULT_LAST_PROCESSED_BLOCK]]

\* a '$' key inside an object inside an array inside an object
NestedBody ==
    JsonObject(<<Member(<<"n">>,
        JsonArray(<<JsonValue,
                    JsonObject(<<Member(<<"m">>,
                        JsonObject(<<Member(<<"$", "s">>, JsonValue)>>))>>)>>))>>)
\* keys that look alike and are allowed: a '$' not in front, an empty key
AllowedBody ==
    JsonObject(<<Member(<<"a", "$">>, JsonArray(<<JsonObject(<<Member(<<>>, JsonValue)>>)>>))>>)

NestedMenu ==
    {[present |-> TRUE, body |-> AllowedBody, has_count |-> TRUE, count |-> 1],
     [present |-> TRUE, body |-> NestedBody, has_count |-> TRUE, count |-> 1],
     [present |-> TRUE, body |-> DottedBody, has_count |-> FALSE, count |-> 0]}

\* the store after the Created events of an earlier run (chain 1, block 0)
SeededMeta ==
    parse_created(
        parse_created(
            parse_created(EmptyStore(EmptyDict), RawLog(1, "main", 0, 1, Created("h1")), 1),
            RawLog(1, "main", 0, 2, Created("h2")), 1),
        RawLog(1, "main", 0, 3, Created("x1")), 1)

InitMeta == InitWith(MetaConfig, SeededMeta.workflows, SeededMeta.logs)

NextMeta ==
    \/ \E c \in Chains : ProcessChainStart(c)
    \/ \E c \in Chains : _process_registry_batch(c, {<<Run("h1")>>}, {})
    \/ \E c \in Chains : RegistryCommit(c)
    \/ \E c \in Chains : SyncStatus(c)
    \/ \E c \in Chains : SumValues(head) < MaxMetaBlocks /\ NewBlock(c)
    \/ MetaBatch(NestedMenu, ItemOutcomes)
    \/ MetaCommit

SpecMeta == InitMeta /\ [][NextMeta]_vars

\* SpecWasmChains: two chains' workers indexing their WASM registries, which
\* announce and update the same module, and the WASM filler storing its code;
\* the store starts empty.
InitWasmChains == InitWith(WasmConfig({1, 2}), <<>>, <<>>)

NextWasmChains ==
    \/ \E c \in Chains : ProcessChainStart(c)
    \/ \E c \in Chains : _process_registry_batch(c, {<<>>}, {})
    \/ \E c \in Chains : RegistryCommit(c)
    \/ \E c \in Chains : _process_wasm_batch(c, WasmMenu, {})
    \/ \E c \in Chains : WasmCommit(c)
    \/ \E c \in Chains : SyncStatus(c)
    \/ \E c \in Chains : SumValues(head) < MaxWasmBlocks /\ NewBlock(c)
    \/ WasmLookup
    \/ WasmFetch({<<0, 97, 115, 109, 1>>}, {TRUE})
    \/ WasmUpdateAttempt({"ok"})

SpecWasmChains == InitWasmChains /\ [][NextWasmChains]_vars

\* SpecWindow: the two fillers and the clock.  An earlier run created a workflow
\* under a CID, a workflow under a hash that is no CID and a module; the
\* content store may fail to answer, or answer with a payload the filler
\* rejects.  The chain's head stays where the cursor is.
WindowMetaMenu ==
    {[present |-> TRUE, body |-> PlainBody, has_count |-> FALSE, count |-> 0],
     [present |-> TRUE, body |-> DottedBody, has_count |-> FALSE, count |-> 0]}

WindowCodeMenu == {<<0, 97, 115, 109, 1>>, <<1, 97, 115, 109>>}

SeededWindow ==
    parse_wasm_created(
        parse_created(
            parse_created(EmptyStore(EmptyDict), RawLog(1, "main", 0, 1, Created("h1")), 1),
            RawLog(1, "main", 0, 2, Created("x1")), 1),
        RawLog(1, "wasm", 0, 1, WasmCreated("w1", "h2")), 1)

InitWindow ==
    InitStore(MetaConfig, SeededWindow.workflows, SeededWindow.logs, SeededWindow.wasm_modules)

NextWindow ==
    \/ \E c \in Chains : ProcessChainStart(c)
    \/ \E c \in Chains : SyncStatus(c)
    \/ Tick
    \/ MetaBatch(WindowMetaMenu, {"ok", "unreachable"})
    \/ MetaCommit
    \/ WasmLookup
    \/ WasmFetch(WindowCodeMenu, BOOLEAN)
    \/ WasmUpdateAttempt({"ok"})
    \/ WasmMarkAttempt({"ok"})

SpecWindow == InitWindow /\ [][NextWindow]_vars

\* SpecBlocked: two chains' workers and the two fillers, each in its own thread.
\* Every log request of chain 1 fails, so its worker retries its first batch
\* for ever; nothing else fails.  Chain 2 announces a workflow, and an earlier
\* run left a module whose code is to be fetched.  Every thread that can take
\* a step is scheduled in the end.
BlockedMetaMenu == {[present |-> TRUE, body |-> PlainBody, has_count |-> FALSE, count |-> 0]}

InitBlocked == InitStore(ReducerConfig, <<>>, SeededWasm.logs, SeededWasm.wasm_modules)

\* the retry loop of chain 1: the log request fails
FailingBatch(c) ==
    /\ c = 1
    /\ _process_registry_batch(c, {<<Run("h2")>>}, {"get_logs"})
    /\ last_event'[c] = "get_logs failed"

\* ChainWorker.run of chain c: the next step of its thread
ChainThread(c) ==
    \/ ProcessChainStart(c)
    \/ FailingBatch(c)
    \/ (c # 1 /\ _process_registry_batch(c, {<<Created("h2")>>}, {}))
    \/ (RegistryCommit(c) /\ last_event'[c] = "committed")
    \/ (SyncStatus(c) /\ last_event'[c] # "sync failed")

\* MetaFillerWorker.run: the next step of its thread
MetaThread ==
    \/ MetaBatch(BlockedMetaMenu, {"ok"})
    \/ (MetaCommit /\ workflows' # workflows)

\* WasmFillerWorker.run: the next step of its thread
WasmThread ==
    \/ WasmLookup
    \/ WasmFetch({<<0, 97, 115, 109, 1>>}, {TRUE})
    \/ WasmUpdateAttempt({"ok"})

NextBlocked ==
    \/ \E c \in Chains : ChainThread(c)
    \/ \E c \in Chains : head[c] < MaxBlockedBlocks /\ NewBlock(c)
    \/ MetaThread
    \/ WasmThread

SpecBlocked ==
    /\ InitBlocked /\ [][NextBlocked]_vars
    /\ \A c \in {1, 2} : WF_vars(ChainThread(c))
    /\ WF_vars(MetaThread)
    /\ WF_vars(WasmThread)

\* SpecLive: the synchronization engine of one chain whose failures are all
\* transient.  A log request, the decoding of a log and a commit may each fail
\* any number of times; the worker is scheduled fairly and an attempt repeated
\* for ever succeeds in the end.
\* A block of a registry holds nothing, an event of the registry, or an event
\* the registry's decoders do not know.
LiveMainMenu == {<<>>, <<Created("h1")>>, <<OtherEvent>>}
LiveWasmMenu == {<<>>, <<WasmCreated("w1", "h1")>>, <<Created("h1")>>}
LiveFaults == {"get_logs", "decode", "reducer"}

InitLive == \E size \in 1..MaxBatchSize : InitWith(SyncConfig(size), <<>>, <<>>)

\* one attempt of the current batch, of either registry
BatchAttempt(c) ==
    \/ _process_registry_batch(c, LiveMainMenu, LiveFaults)
    \/ _process_wasm_batch(c, LiveWasmMenu, LiveFaults)

\* the commit ending the attempt
BatchCommit(c) == RegistryCommit(c) \/ WasmCommit(c)

\* ChainWorker.run: the next step of the worker's thread
WorkerThread(c) ==
    \/ ProcessChainStart(c)
    \/ BatchAttempt(c)
    \/ BatchCommit(c)
    \/ SyncStatus(c)

NextLive ==
    \/ \E c \in Chains : WorkerThread(c)
    \/ \E c \in Chains : NewBlock(c)

SpecLive ==
    /\ InitLive /\ [][NextLive]_vars
    /\ WF_vars(WorkerThread(1))
    /\ SF_vars(BatchAttempt(1) /\ pc'[1] \in {"registry_commit", "wasm_commit"})
    /\ SF_vars(BatchCommit(1) /\ last_event'[1] = "committed")

\* SpecCid: the two fillers on a store where an earlier run created a workflow
\* and a module under two content hashes that may be any strings: a CID of
\* either version, or a string that differs from one in its length, its prefix
\* or one of its characters.
SeededCid(h, g) ==
    parse_wasm_created(
        parse_created(EmptyStore(EmptyDict), RawLog(1, "main", 0, 1, Created(h)), 1),
        RawLog(1, "wasm", 0, 1, WasmCreated("w1", g)), 1)

InitCid ==
    \E h \in DOMAIN CidText, g \in DOMAIN CidText :
        /\ h # g
        /\ InitStore(MetaConfig, SeededCid(h, g).workflows, SeededCid(h, g).logs,
                     SeededCid(h, g).wasm_modules)

NextCid ==
    \/ MetaBatch(WindowMetaMenu, {"ok", "unreachable"})
    \/ MetaCommit
    \/ WasmLookup
    \/ WasmFetch(WindowCodeMenu, BOOLEAN)
    \/ WasmUpdateAttempt({"ok"})
    \/ WasmMarkAttempt({"ok"})

SpecCid == InitCid /\ [][NextCid]_vars

\* SpecLegacy: two chains' workers counting the runs of two workflows.  Workflow
\* h1 was stored before per-chain counters existed: it has a positive runs value
\* and no chains_runs.  Workflow h2 is new.  A block holds one or two run events.
LegacyMenu ==
    {<<Run("h1")>>, <<RunWithMetadata("h1", "n1")>>, <<Run("h2")>>,
     <<Run("h2"), Run("h2")>>}

\* the log entries of n Run events of chain 1 for h1, counted by an earlier version
RECURSIVE LoggedRuns(_, _)
LoggedRuns(S, n) ==
    IF n = 0 THEN S
    ELSE insert_log(LoggedRuns(S, n - 1),
                    LogDoc(EventType.RUN, 1, RawLog(1, "main", 0, 2 + n, Run("h1"))))

\* the store an earlier version left: h1 counted `runs` Run events of chain 1
\* in the flat counter only
SeededLegacy(runs) ==
    LET created ==
            parse_created(
                parse_created(EmptyStore(EmptyDict),
                              RawLog(1, "main", 0, 1, Created("h1")), 1),
                RawLog(1, "main", 0, 2, Created("h2")), 1)
    IN  [LoggedRuns(created, runs) EXCEPT !.workflows[1].runs = runs]

InitLegacy ==
    \E runs \in 1..MaxLegacyRuns :
        InitWith(ReducerConfig, SeededLegacy(runs).workflows, SeededLegacy(runs).logs)

NextLegacy ==
    \/ \E c \in Chains : ProcessChainStart(c)
    \/ \E c \in Chains : _process_registry_batch(c, LegacyMenu, {})
    \/ \E c \in Chains : RegistryCommit(c)
    \/ \E c \in Chains : SyncStatus(c)
    \/ \E c \in Chains : SumValues(head) < MaxReducerBlocks /\ NewBlock(c)

SpecLegacy == InitLegacy /\ [][NextLegacy]_vars

\* SpecOrphans: one chain's worker indexing both registries, block by block,
\* on a store that starts empty.  The registries emit run, cancel and update
\* events whether or not the workflow or module they name was announced.
OrphanMainMenu ==
    {<<Created("h1")>>, <<Run("h1")>>, <<RunWithMetadata("h1", "n1")>>, <<Cancelled("h1")>>}
OrphanWasmMenu == {<<>>, <<WasmCreated("w1", "h1")>>, <<WasmUpdated("w1", "h1", "h2")>>}

InitOrphans == InitWith(WasmConfig({1}), <<>>, <<>>)

NextOrphans ==
    \/ \E c \in Chains : ProcessChainStart(c)
    \/ \E c \in Chains : _process_registry_batch(c, OrphanMainMenu, {})
    \/ \E c \in Chains : RegistryCommit(c)
    \/ \E c \in Chains : _process_wasm_batch(c, OrphanWasmMenu, {})
    \/ \E c \in Chains : WasmCommit(c)
    \/ \E c \in Chains : SyncStatus(c)
    \/ \E c \in Chains : NewBlock(c)

SpecOrphans == InitOrphans /\ [][NextOrphans]_vars

\* SpecPending: the metadata filler, the clock and one chain's worker, each
\* scheduled fairly.  An earlier run created ten workflows under hashes that
\* are no CIDs, whose fetch fails on every attempt, and after them a workflow
\* whose payload is valid and always fetched; the chain reports a run of it.
\* A commit repeated for ever succeeds in the end.
PendingHashes ==
    <<"x1", "empty", "v0 short", "v0 long", "v0 zero", "v0 letter l", "v0 letter O",
      "v0 letter I", "v0 prefix Qn", "v0 prefix qm">>

\* the store after Created events for the first n of the hashes
RECURSIVE CreatedAll(_, _)
CreatedAll(hashes, n) ==
    IF n = 0 THEN EmptyStore(EmptyDict)
    ELSE parse_created(CreatedAll(hashes, n - 1),
                       RawLog(1, "main", 0, n, Created(hashes[n])), 1)

SeededPending == CreatedAll(PendingHashes \o <<"h1">>, Len(PendingHashes) + 1)

InitPending == InitWith(MetaConfig, SeededPending.workflows, SeededPending.logs)

\* datetime.utcnow() advances by an hour, as the lookups and the failure marks
\* see it.  Once the clock reads MaxTime the origin of time is moved instead of
\* the clock: every recorded failure time is an hour older.  What no lookup
\* tells apart is not kept apart: times more than an hour old, and failure
\* counts above the cap.
HourPasses ==
    LET Aged(d) ==
            [d EXCEPT
                !.meta_fetch_last_failed =
                    IF @ = NoTime \/ now < MaxTime THEN @ ELSE Max(@ - 1, 0),
                !.meta_fetch_failure_count = Min(@, FAILURE_CAP)]
    IN  /\ meta_pc = "idle"
        /\ now' = Min(now + 1, MaxTime)
        /\ workflows' = [i \in 1..Len(workflows) |-> Aged(workflows[i])]
        /\ UNCHANGED <<chains, logs, wasm_modules, head, chainlog, ipfs, chain_doc,
                       workerVars, metaVars, wasmFillerVars>>

\* MetaFillerWorker.run: the next step of its thread
PendingMetaThread ==
    \/ MetaBatchUpTo(BlockedMetaMenu, {"ok"}, FAILURE_CAP + 1)
    \/ MetaCommit

\* ChainWorker.run: the next step of the worker's thread
PendingChainThread(c) ==
    \/ ProcessChainStart(c)
    \/ _process_registry_batch(c, {<<Run("h1")>>}, {})
    \/ RegistryCommit(c)
    \/ SyncStatus(c)

NextPending ==
    \/ \E c \in Chains : PendingChainThread(c)
    \/ \E c \in Chains : head[c] < MaxBlockedBlocks /\ NewBlock(c)
    \/ PendingMetaThread
    \/ HourPasses

SpecPending ==
    /\ InitPending /\ [][NextPending]_vars
    /\ WF_vars(PendingChainThread(1))
    /\ WF_vars(PendingMetaThread)
    /\ SF_vars(MetaCommit /\ workflows' # workflows)
    /\ SF_vars(RegistryCommit(1) /\ last_event'[1] = "committed")
    /\ WF_vars(HourPasses)

\* SpecRotation: one chain's worker indexing WasmUpdated events of a module an
\* earlier run created, the WASM filler, whose requests may fail or be
\* answered with a payload that is no WASM binary, and the clock.
InitRotation ==
    InitStore(WasmConfig({1}), <<>>, SeededWasm.logs, SeededWasm.wasm_modules)

NextRotation ==
    \/ \E c \in Chains : ProcessChainStart(c)
    \/ \E c \in Chains : _process_registry_batch(c, {<<>>}, {})
    \/ \E c \in Chains : RegistryCommit(c)
    \/ \E c \in Chains : _process_wasm_batch(c, {<<WasmUpdated("w1", "h1", "h2")>>}, {})
    \/ \E c \in Chains : WasmCommit(c)
    \/ \E c \in Chains : SyncStatus(c)
    \/ \E c \in Chains : head[c] < MaxBlockedBlocks /\ NewBlock(c)
    \/ Tick
    \/ WasmLookup
    \/ WasmFetch(WindowCodeMenu, BOOLEAN)
    \/ WasmUpdateAttempt({"ok"})
    \/ WasmMarkAttempt({"ok"})

SpecRotation == InitRotation /\ [][NextRotation]_vars

\* ------------------------------------------------------------ properties
Cursor(c) == chains[c].last_processed_block
WasmCursor(c) == chains[c].wasm_last_processed_block
InRegistryBatch(p) == p \in {"registry", "registry_commit"}
InWasmBatch(p) == p \in {"wasm", "wasm_commit"}

\* the recognized logs registry r of chain c emitted in the blocks 1..upto
Emitted(c, r, upto) ==
    {<<c, r, b, i>> : b \in 1..upto, i \in 1..4} \cap
    {<<c, r, b, i>> : b \in DOMAIN chainlog[c][r], i \in 1..4} \cap
    UNION {{<<c, r, b, i>> : i \in {j \in 1..Len(chainlog[c][r][b]) :
                chainlog[c][r][b][j].topic \in
                    (IF r = "main" THEN _topic_map ELSE _wasm_topic_map)}} :
           b \in DOMAIN chainlog[c][r]}

LoggedIds == {logs[i].transaction_hash : i \in 1..Len(logs)}

\* C1: the persisted last_processed_block and wasm_last_processed_block of every
\* chain never decrease, whatever the worker does: iterations, failed and
\* retried batches, and a kill in the middle of a batch followed by a restart.
C1_CursorsNeverDecrease ==
    [][\A c \in Chains :
        /\ chains'[c].last_processed_block >= chains[c].last_processed_block
        /\ chains'[c].wasm_last_processed_block >= chains[c].wasm_last_processed_block]_vars

\* C1 witness: the process was killed inside a batch after an earlier batch had
\* moved the cursor, and the restarted worker holds the persisted cursor.
C1_Witness ==
    \E c \in Chains :
        /\ last_event[c] = "killed"
        /\ Cursor(c) > 0
        /\ last_processed[c] = Cursor(c)

\* C2: a batch is all or nothing.  A step that moves a cursor is the commit of
\* that registry's batch and in the same step appends one log entry per decoded
\* event of the batch, in order, and makes the whole transaction's view the
\* store; and the logs, workflows and modules never change in a step that moves
\* no cursor (a failed reducer leaves no trace), the filler's commit aside.
C2_BatchAllOrNothing ==
    [][/\ \A c \in Chains :
            /\ Cursor(c)' # Cursor(c) =>
                /\ pc[c] = "registry_commit"
                /\ Cursor(c)' = txn[c].batch_end
                /\ Len(logs') = Len(logs) + Len(txn[c].decoded)
                /\ \A k \in 1..Len(txn[c].decoded) :
                        logs'[Len(logs) + k].transaction_hash
                            = txn[c].decoded[k].transactionHash
                /\ Store = txn[c].snap => Store' = txn[c].view
            /\ WasmCursor(c)' # WasmCursor(c) =>
                /\ pc[c] = "wasm_commit"
                /\ WasmCursor(c)' = txn[c].batch_end
                /\ Len(logs') = Len(logs) + Len(txn[c].decoded)
                /\ \A k \in 1..Len(txn[c].decoded) :
                        logs'[Len(logs) + k].transaction_hash
                            = txn[c].decoded[k].transactionHash
                /\ Store = txn[c].snap => Store' = txn[c].view
       /\ (logs' # logs \/ workflows' # workflows \/ wasm_modules' # wasm_modules) =>
            \/ meta_pc = "commit"
            \/ \E c \in Chains : Cursor(c)' # Cursor(c) \/ WasmCursor(c)' # WasmCursor(c)]_vars

\* C2 witness: a reducer of a batch holding two recognized events has just
\* failed, and the store shows nothing of the batch.
C2_Witness ==
    \E c \in Chains :
        /\ last_event[c] = "reducer failed"
        /\ pc[c] = "registry"
        /\ Cardinality(Emitted(c, "main", batch_end(c))) >= 2
        /\ logs = <<>> /\ workflows = <<>> /\ Cursor(c) = 0

\* C3: batches of a registry are committed in increasing block order without
\* gaps.  A commit moves the cursor from x to the end of the range that starts at
\* x + 1, at most batch_size blocks further and not past the safe block; an
\* attempt that fails leaves the worker on the same range; and whenever the
\* worker is on a range (also after a restart) it starts right after the cursor.
C3_BatchesInOrder ==
    [][\A c \in Chains :
        /\ Cursor(c)' # Cursor(c) =>
            /\ batch_start[c] = Cursor(c) + 1
            /\ Cursor(c)' >= batch_start[c]
            /\ Cursor(c)' - Cursor(c) <= chain_doc[c].batch_size
            /\ Cursor(c)' <= current_block[c] - chain_doc[c].block_delay
        /\ WasmCursor(c)' # WasmCursor(c) =>
            /\ batch_start[c] = WasmCursor(c) + 1
            /\ WasmCursor(c)' >= batch_start[c]
            /\ WasmCursor(c)' - WasmCursor(c) <= chain_doc[c].batch_size
            /\ WasmCursor(c)' <= current_block[c] - chain_doc[c].block_delay
        /\ (InRegistryBatch(pc[c]) /\ Cursor(c)' = Cursor(c) /\ pc'[c] # "start") =>
            (InRegistryBatch(pc'[c]) /\ batch_start'[c] = batch_start[c])
        /\ (InWasmBatch(pc[c]) /\ WasmCursor(c)' = WasmCursor(c) /\ pc'[c] # "start") =>
            (InWasmBatch(pc'[c]) /\ batch_start'[c] = batch_start[c])
        /\ InRegistryBatch(pc'[c]) => batch_start'[c] = Cursor(c)' + 1
        /\ InWasmBatch(pc'[c]) => batch_start'[c] = WasmCursor(c)' + 1]_vars

\* C3 witness: a second range is being retried after its attempt failed, the
\* first range being committed.
C3_Witness ==
    \E c \in Chains :
        /\ pc[c] = "registry"
        /\ last_event[c] \in {"get_logs failed", "decode failed", "reducer failed",
                              "commit failed"}
        /\ Cursor(c) > 0
        /\ batch_start[c] = Cursor(c) + 1

\* C4: whenever a cursor stands at block x, every recognized event its registry
\* emitted in the blocks 1..x has a log entry.
C4_EveryEventLogged ==
    \A c \in Chains :
        /\ Emitted(c, "main", Cursor(c)) \subseteq LoggedIds
        /\ Emitted(c, "wasm", WasmCursor(c)) \subseteq LoggedIds

\* C5: no event is recorded twice and no aggregate mutation is applied twice:
\* the log entries are pairwise of different events, and a workflow's counter
\* for a chain never exceeds the run events that chain emitted up to the cursor.
C5_AtMostOnce ==
    /\ \A i, j \in 1..Len(logs) :
            i # j => logs[i].transaction_hash # logs[j].transaction_hash
    /\ \A w \in 1..Len(workflows), c \in Chains :
            ChainIdStr(c) \in DOMAIN workflows[w].chains_runs =>
                workflows[w].chains_runs[ChainIdStr(c)]
                    <= Cardinality({id \in Emitted(c, "main", Cursor(c)) :
                            /\ chainlog[c]["main"][id[3]][id[4]].topic
                                    \in {EventType.RUN, EventType.RUN_WITH_METADATA}
                            /\ chainlog[c]["main"][id[3]][id[4]].ipfsHash
                                    = workflows[w].ipfs_hash})

\* C5 witness: the process was killed inside a batch when earlier batches had
\* already recorded events, so the interrupted range is processed again.
C5_Witness ==
    \E c \in Chains :
        /\ last_event[c] = "killed"
        /\ \E i \in 1..Len(logs) : logs[i].chain_id = c
        /\ Cursor(c) < head[c] - chain_doc[c].block_delay

\* the log entries of run events of workflow h, and the nonces among them
RunLogs(S, h) == {i \in 1..Len(S.logs) : S.logs[i].event = "Run" /\ S.logs[i].ipfs_hash = h}
LoggedNonces(S, h) == {S.logs[i].nonce : i \in RunLogs(S, h)} \ {None}
CreatedLogs(S, h) ==
    {i \in 1..Len(S.logs) : S.logs[i].event = "Created" /\ S.logs[i].ipfs_hash = h}
\* a decoded event of chain c in block b
Decoded(c, b, t) == process_log(RawLog(c, "main", b, 1, t))
\* the store holds the workflow made before the workers started
IsSeeded == logs # <<>> /\ logs[1].blocknumber = 0

\* C6: a Created event for a hash that already has a workflow adds exactly one
\* log entry and nothing else: no workflow is inserted and no field of a
\* workflow changes.  Stated of the reducer on every reachable store, and of every
\* open batch transaction whose snapshot already held the workflow.
C6_DuplicateCreatedOnlyLogs ==
    /\ \A c \in Chains, b \in 1..MaxReducerBlocks :
        find_workflow_by_ipfs(Store, "h1") # 0 =>
            LET evt == Decoded(c, b, Created("h1"))
                after == parse_created(Store, evt, c)
            IN  /\ after.workflows = workflows
                /\ after.chains = chains /\ after.wasm_modules = wasm_modules
                /\ Len(after.logs) = Len(logs) + 1
                /\ SubSeq(after.logs, 1, Len(logs)) = logs
                /\ after.logs[Len(logs) + 1].event = "Created"
                /\ after.logs[Len(logs) + 1].transaction_hash = evt.transactionHash
    /\ \A c \in Chains :
        (txn[c].active /\ find_workflow_by_ipfs(txn[c].snap, "h1") # 0) =>
            /\ Len(txn[c].view.workflows) = Len(txn[c].snap.workflows)
            /\ Len(txn[c].view.logs) = Len(txn[c].snap.logs) + Len(txn[c].decoded)
            /\ (\A k \in 1..Len(txn[c].decoded) : txn[c].decoded[k].name = "Created")
                    => txn[c].view.workflows = txn[c].snap.workflows

\* C6 witness: a second Created event for the hash is logged and the store still
\* holds the one workflow the first Created event made.
C6_Witness ==
    /\ Len(workflows) = 1
    /\ Cardinality(CreatedLogs(Store, "h1")) >= 2
    /\ workflows[1].create_event_id = logs[1].transaction_hash

\* C7: in every reachable state the store holds at most one workflow for an
\* ipfs_hash.
C7_OneWorkflowPerHash ==
    \A i, j \in 1..Len(workflows) :
        i # j => workflows[i].ipfs_hash # workflows[j].ipfs_hash

\* C8: for a workflow that exists, run events carrying the same nonce are counted
\* once however the two chains' transactions interleave: the per-chain counters
\* add up to the number of different nonces logged plus the runs without nonce;
\* and the reducer of a RunWithMetadata whose nonce is already logged adds its log
\* entry and leaves the workflows as they are.
C8_NonceCountedOnce ==
    /\ IsSeeded =>
        SumValues(workflows[1].chains_runs)
            = Cardinality(LoggedNonces(Store, "h1"))
                + Cardinality({i \in RunLogs(Store, "h1") : logs[i].nonce = None})
    /\ \A c \in Chains, b \in 1..MaxReducerBlocks, n \in LoggedNonces(Store, "h1") :
        find_workflow_by_ipfs(Store, "h1") # 0 =>
            LET evt == Decoded(c, b, RunWithMetadata("h1", n))
                after == parse_run_with_metadata(Store, evt, c)
            IN  /\ after.workflows = workflows
                /\ Len(after.logs) = Len(logs) + 1
                /\ SubSeq(after.logs, 1, Len(logs)) = logs
                /\ after.logs[Len(logs) + 1].transaction_hash = evt.transactionHash
                /\ after.logs[Len(logs) + 1].nonce = n

\* C8 witness: both chains' RunWithMetadata events with the nonce n1 are logged
\* for the workflow that existed before, and it counts one run.
C8_Witness ==
    /\ IsSeeded
    /\ \A c \in Chains : \E i \in RunLogs(Store, "h1") :
            logs[i].nonce = "n1" /\ logs[i].chain_id = c
    /\ workflows[1].runs = 1
    /\ SumValues(workflows[1].chains_runs) = 1

\* C9: a workflow with per-chain counters has runs equal to the largest of them.
C9_RunsIsMax ==
    \A i \in 1..Len(workflows) :
        DOMAIN workflows[i].chains_runs # {} =>
            workflows[i].runs = MaxValue(workflows[i].chains_runs)

\* C9 witness: a workflow whose metadata the filler stored has one run counted on
\* each of the two chains, and runs is 1, not 2.
C9_Witness ==
    \E i \in 1..Len(workflows) :
        /\ workflows[i].has_meta
        /\ Cardinality(DOMAIN workflows[i].chains_runs) = 2
        /\ SumValues(workflows[i].chains_runs) = 2
        /\ workflows[i].runs = 1

\* C10: is_cancelled of a workflow, once true, stays true in every step, whatever
\* events are reduced and whatever the metadata filler writes.
C10_CancelledIsMonotonic ==
    [][\A i \in 1..Len(workflows) :
        workflows[i].is_cancelled =>
            (i <= Len(workflows') /\ workflows'[i].is_cancelled)]_vars

\* C10 witness: the filler has stored, for a workflow that was cancelled before,
\* metadata whose execution count does not ask for a cancellation.
C10_Witness ==
    /\ meta_pc = "commit"
    /\ \E i \in 1..Len(meta_txn.snap.workflows) :
        /\ meta_txn.snap.workflows[i].is_cancelled
        /\ meta_txn.view.workflows[i].has_meta
        /\ ~meta_txn.view.workflows[i].meta.has_count
        /\ meta_txn.view.workflows[i].is_cancelled

WasmFillerStep == wasmFillerVars' # wasmFillerVars
\* the bytes are at least four and start with 0x00 'a' 's' 'm'
HasMagic(bytes) ==
    /\ Len(bytes) >= 4
    /\ bytes[1] = 0 /\ bytes[2] = 97 /\ bytes[3] = 115 /\ bytes[4] = 109
\* the module the filler is handling, as the store S holds it
CurrentModule(S) == S.wasm_modules[find_wasm_by_id(S, wasms[1].wasm_id)]

C13_InvalidKeysRejected ==
    [][/\ (meta_pc = "idle" /\ meta_pc' = "commit") =>
            \A i \in find_workflows_without_meta_batch(Store, META_FILLER_BATCH_SIZE) :
                (/\ workflows[i].ipfs_hash \in DOMAIN ipfs'
                 /\ ipfs'[workflows[i].ipfs_hash].body \in {NestedBody, DottedBody}) =>
                    meta_txn'.view.workflows[i] =
                        [workflows[i] EXCEPT
                            !.meta_fetch_failure_count = @ + 1,
                            !.meta_fetch_last_failed = now]
       /\ (meta_pc = "commit" /\ meta_pc' = "idle" /\ workflows' # workflows) =>
            \A i \in Updated(meta_txn.snap.workflows, meta_txn.view.workflows) :
                workflows'[i] = meta_txn.view.workflows[i]]_vars

\* C13 witness: a workflow that has run once, whose content declares an
\* execution count of one next to a '$' key three levels down: the filler's
\* committed batch recorded a failure and stored no metadata, and the workflow is
\* not cancelled.
C13_Witness ==
    /\ meta_pc = "idle"
    /\ \E i \in 1..Len(workflows) :
        /\ workflows[i].ipfs_hash \in DOMAIN ipfs
        /\ ipfs[workflows[i].ipfs_hash].body = NestedBody
        /\ ipfs[workflows[i].ipfs_hash].count = 1
        /\ workflows[i].runs = 1
        /\ workflows[i].meta_fetch_failure_count = 1
        /\ workflows[i].meta_fetch_last_failed = now
        /\ workflows[i].has_meta = FALSE
        /\ workflows[i].meta = NoMeta
        /\ workflows[i].is_cancelled = FALSE

\* C14, end to end (block 100 standing for block 1, block 105 for block 2): from
\* an empty store and a cursor below the first block, when the chain's main
\* registry emitted one Created event for h1 in block 1 and one Run event for h1
\* in block 2, the WASM registry nothing, and the cursor has reached block 2,
\* the store holds exactly one workflow: for h1, with runs = 1, not cancelled,
\* without metadata; and exactly two log entries.
C14_CreatedThenRun ==
    \A c \in Chains :
        (/\ {1, 2} \subseteq DOMAIN chainlog[c]["main"]
         /\ chainlog[c]["main"][1] = <<Created("h1")>>
         /\ chainlog[c]["main"][2] = <<Run("h1")>>
         /\ \A b \in DOMAIN chainlog[c]["wasm"] : chainlog[c]["wasm"][b] = <<>>
         /\ Cursor(c) >= 2) =>
            /\ Len(workflows) = 1
            /\ workflows[1].ipfs_hash = "h1"
            /\ workflows[1].runs = 1
            /\ workflows[1].is_cancelled = FALSE
            /\ workflows[1].has_meta = FALSE
            /\ Len(logs) = 2

C16_CountCancels ==
    \A c \in Chains :
        \A t \in {Run("h1"), RunWithMetadata("h1", "n1"), RunWithMetadata("h1", "n2")} :
            LET evt == process_log(RawLog(c, "main", MaxReducerBlocks + 1, 1, t))
                i == find_workflow_by_ipfs(Store, "h1")
                duplicate == /\ t.topic = EventType.RUN_WITH_METADATA
                             /\ has_run_event_with_nonce(Store, "h1", t.nonce)
            IN  (i # 0 /\ ~duplicate) =>
                    LET wf == workflows[i]
                        after == Reduce(Store, evt, c).workflows[i]
                    IN  /\ (wf.meta.has_count /\ after.runs >= wf.meta.count) =>
                                after.is_cancelled = TRUE
                        /\ (~wf.meta.has_count \/ after.runs < wf.meta.count) =>
                                after.is_cancelled = wf.is_cancelled

\* C16 witness: a chain's batch holds a run that brought a workflow, not cancelled
\* before, to the execution count its stored metadata declares, and the batch's
\* transaction holds the workflow cancelled with no cancel event.
C16_Witness ==
    \E c \in Chains :
        /\ pc[c] = "registry_commit"
        /\ \E i \in 1..Len(txn[c].snap.workflows) :
            /\ txn[c].snap.workflows[i].has_meta
            /\ txn[c].snap.workflows[i].meta.has_count
            /\ ~txn[c].snap.workflows[i].is_cancelled
            /\ txn[c].snap.workflows[i].runs < txn[c].snap.workflows[i].meta.count
            /\ txn[c].view.workflows[i].runs = txn[c].snap.workflows[i].meta.count
            /\ txn[c].view.workflows[i].is_cancelled
            /\ txn[c].view.workflows[i].cancel_event_id = NoId

\* C17: a Cancelled event always inserts one log entry; a workflow that exists
\* and is not cancelled gets is_cancelled and that entry as cancel_event_id, and
\* nothing else changes; a workflow that is cancelled already (by a Cancelled
\* event or by its execution count) is left as it is, and so is every workflow
\* when none has the hash; applying the same event a second time changes no
\* workflow.  Checked for every chain's event on every reachable store.
C17_CancelledOnce ==
    \A c \in Chains :
        LET evt == process_log(RawLog(c, "main", MaxReducerBlocks + 1, 1, Cancelled("h1")))
            i == find_workflow_by_ipfs(Store, "h1")
            once == parse_cancelled(Store, evt, c)
            twice == parse_cancelled(once, evt, c)
        IN  /\ Len(once.logs) = Len(logs) + 1
            /\ SubSeq(once.logs, 1, Len(logs)) = logs
            /\ once.logs[Len(logs) + 1].event = "Cancelled"
            /\ once.logs[Len(logs) + 1].transaction_hash = evt.transactionHash
            /\ IF i # 0 /\ ~workflows[i].is_cancelled
               THEN once.workflows =
                        [workflows EXCEPT ![i] =
                            [@ EXCEPT !.is_cancelled = TRUE,
                                      !.cancel_event_id = evt.transactionHash]]
               ELSE once.workflows = workflows
            /\ twice.workflows = once.workflows
            /\ Len(twice.logs) = Len(once.logs) + 1

\* C17 witness: two Cancelled events for a workflow have been indexed, and the
\* workflow names the first one's log entry as its cancel event.
C17_Witness ==
    \E j, k \in 1..Len(logs) :
        /\ j < k
        /\ logs[j].event = "Cancelled" /\ logs[k].event = "Cancelled"
        /\ logs[j].ipfs_hash = logs[k].ipfs_hash
        /\ \A m \in 1..(j - 1) : logs[m].event # "Cancelled"
        /\ \E i \in 1..Len(workflows) :
            /\ workflows[i].ipfs_hash = logs[j].ipfs_hash
            /\ workflows[i].is_cancelled
            /\ workflows[i].cancel_event_id = logs[j].transaction_hash

\* C18: no two modules have the same wasm_id, in every reachable state, the
\* chains' batch transactions overlapping as they may; and a WasmCreated event
\* for an id that has a module, whatever hash and chain it names, adds one log
\* entry and leaves every module as it is.
C18_OneModulePerId ==
    /\ \A i, j \in 1..Len(wasm_modules) :
            wasm_modules[i].wasm_id = wasm_modules[j].wasm_id => i = j
    /\ \A c \in Chains : \A h \in {"h1", "h2"} :
        LET evt == process_log(RawLog(c, "wasm", MaxWasmBlocks + 1, 1, WasmCreated("w1", h)))
            after == parse_wasm_created(Store, evt, c)
        IN  find_wasm_by_id(Store, "w1") # 0 =>
                /\ after.wasm_modules = wasm_modules
                /\ Len(after.logs) = Len(logs) + 1
                /\ SubSeq(after.logs, 1, Len(logs)) = logs
                /\ after.workflows = workflows /\ after.chains = chains

\* C18 witness: a chain's batch transaction inserted a module for an id, and
\* before its commit the other chain's overlapping transaction has committed a
\* module for the same id, whose code the filler has stored since.
C18_Witness ==
    \E c \in Chains :
        /\ pc[c] = "wasm_commit"
        /\ Len(txn[c].snap.wasm_modules) = 0
        /\ Len(txn[c].view.wasm_modules) = 1
        /\ Len(wasm_modules) = 1
        /\ wasm_modules[1].wasm_id = txn[c].view.wasm_modules[1].wasm_id
        /\ wasm_modules[1].chain_id # c
        /\ wasm_modules[1].has_wasm

\* C19: one item's failure never aborts the filler's batch.  When the filler's
\* transaction ends and the update of one item of its batch fails, that
\* workflow having been changed in the store since the transaction began, every
\* other item of the batch, whose workflow nobody changed, still has its result
\* (metadata stored or failure recorded) in the store.
C19_ItemFailureIsolated ==
    [][(/\ meta_pc = "commit" /\ meta_pc' = "idle"
        /\ \E i \in Updated(meta_txn.snap.workflows, meta_txn.view.workflows) :
                workflows[i] # meta_txn.snap.workflows[i]) =>
            \A j \in Updated(meta_txn.snap.workflows, meta_txn.view.workflows) :
                workflows[j] = meta_txn.snap.workflows[j] =>
                    workflows'[j] = meta_txn.view.workflows[j]]_vars

\* C20 as stated: a transient conflict of the single-item update is retried, at
\* most three times; once the retries are exhausted and the filler is done with
\* the item, the module's failure counter has been incremented and has_wasm is
\* false.
C20_ExhaustedRetriesCounted ==
    [][/\ (wasm_pc = "update" /\ attempt' = attempt + 1) => attempt' <= 3
       /\ (wasm_pc = "mark" /\ wasm_event = "retries exhausted" /\ wasm_pc' # "mark") =>
            /\ CurrentModule(Store').wasm_fetch_failure_count
                    = CurrentModule(Store).wasm_fetch_failure_count + 1
            /\ CurrentModule(Store').has_wasm = FALSE]_vars

\* C20 amended: the single-item update is attempted at most MAX_RETRY_ATTEMPTS
\* (3) times, that is retried at most twice, after sleeps of one and then two
\* base delays.  A successful attempt sets wasm_code, wasm_code_size and
\* has_wasm and clears the failure fields of the module in one step and changes
\* nothing else.  A transient conflict on the third attempt leaves the store as
\* it is and hands the item to the failure-marking transaction, which either
\* increments the failure counter and sets the last-failure time, or, failing
\* itself on a non-transient error or on the last of its own three attempts,
\* records nothing; has_wasm stays false in both cases and the filler goes on
\* to the next item of its batch.
C20_RetryThenMark ==
    [][/\ (wasm_pc \in {"update", "mark"} /\ wasm_pc' = wasm_pc /\ wasms' = wasms
                /\ WasmFillerStep) =>
            /\ attempt' = attempt + 1 /\ attempt' < MAX_RETRY_ATTEMPTS
            /\ slept' \in {<<1>>, <<1, 2>>}
            /\ UNCHANGED storeVars
       /\ (wasm_pc = "update" /\ wasm_event' = "stored") =>
            /\ CurrentModule(Store') =
                    [CurrentModule(Store) EXCEPT
                        !.wasm_code = wasm_code,
                        !.wasm_code_size = Len(wasm_code),
                        !.has_wasm = TRUE,
                        !.wasm_fetch_failure_count = 0,
                        !.wasm_fetch_last_failed = NoTime]
            /\ \A i \in 1..Len(wasm_modules) :
                    i # find_wasm_by_id(Store, wasms[1].wasm_id) =>
                        wasm_modules'[i] = wasm_modules[i]
            /\ Len(wasm_modules') = Len(wasm_modules)
            /\ wasms' = Tail(wasms)
       /\ (wasm_pc = "update" /\ wasm_pc' = "mark") =>
            /\ UNCHANGED <<storeVars, wasms>>
            /\ wasm_event' = "retries exhausted" => attempt = MAX_RETRY_ATTEMPTS - 1
            /\ wasm_event' \in {"retries exhausted", "update failed"}
       /\ (wasm_pc = "mark" /\ wasm_event = "retries exhausted" /\ wasm_pc' # "mark") =>
            /\ wasms' = Tail(wasms)
            /\ wasm_pc' = IF Len(wasms) > 1 THEN "fetch" ELSE "idle"
            /\ CurrentModule(Store').has_wasm = FALSE
            /\ \/ /\ wasm_event' = "failure recorded"
                  /\ CurrentModule(Store') =
                        [CurrentModule(Store) EXCEPT
                            !.wasm_fetch_failure_count = @ + 1,
                            !.wasm_fetch_last_failed = now]
               \/ /\ wasm_event' = "failure not recorded"
                  /\ UNCHANGED storeVars]_vars

\* C20 witness: the third attempt to store a module's fetched WASM binary met a
\* transient conflict: the item is handed to the failure-marking transaction
\* and the module has no code.
C20_Witness ==
    /\ wasm_pc = "mark"
    /\ wasm_event = "retries exhausted"
    /\ HasMagic(wasm_code)
    /\ CurrentModule(Store).has_wasm = FALSE
    /\ CurrentModule(Store).wasm_code = NoCode

\* a failure recorded at time ts is not yet more than one hour old
InWindow(ts) == ts # NoTime /\ ~(ts < one_hour_ago)
\* the items the next batch lookup of each filler would return
NextWorkflows == find_workflows_without_meta_batch(Store, META_FILLER_BATCH_SIZE)
NextModules == find_wasms_without_code_batch(Store, META_FILLER_BATCH_SIZE)

C22_OthersProgress ==
    /\ [](Cursor(1) = 0)
    /\ \A n \in 1..MaxBlockedBlocks : (head[2] = n) ~> (Cursor(2) >= n)
    /\ (Len(workflows) > 0) ~> (\A i \in 1..Len(workflows) : workflows[i].has_meta)
    /\ <>(\A i \in 1..Len(wasm_modules) : wasm_modules[i].has_wasm)

\* C22 witness: the worker of chain 1 has just failed once more on its first
\* batch, and meanwhile chain 2's cursor is at its head, the workflow it
\* announced has its metadata and the module has its code.
C22_Witness ==
    /\ pc[1] = "registry" /\ last_event[1] = "get_logs failed"
    /\ head[1] = 1 /\ Cursor(1) = 0
    /\ head[2] = 1 /\ Cursor(2) = 1
    /\ Len(workflows) = 1 /\ workflows[1].has_meta
    /\ Len(wasm_modules) = 1 /\ wasm_modules[1].has_wasm


\* C23: liveness of the sync loop.  When every failure is transient (a log
\* request, a decoding and a commit that are retried for ever succeed in the
\* end) and the worker is scheduled fairly, every batch the worker starts is
\* eventually committed (the cursor of its registry reaches the batch's end),
\* and both cursors eventually reach the safe block the iteration computed.
C23_EveryBatchCommits ==
    /\ \A e \in 1..MaxHead :
        (pc[1] = "registry" /\ batch_end(1) = e) ~> (Cursor(1) >= e)
    /\ \A e \in 1..MaxHead :
        (pc[1] = "wasm" /\ batch_end(1) = e) ~> (WasmCursor(1) >= e)
    /\ \A n \in 1..MaxHead :
        (pc[1] \in {"registry", "wasm"} /\ latest_block(1) = n)
            ~> (Cursor(1) >= n /\ WasmCursor(1) >= n)

\* after failed attempts the main registry's cursor has reached the safe block
\* of the iteration, two blocks on, and the WASM registry's batch is being retried
C23_Witness ==
    /\ pc[1] = "wasm"
    /\ last_event[1] \in {"get_logs failed", "decode failed", "reducer failed", "commit failed"}
    /\ latest_block(1) = 2
    /\ Cursor(1) = 2
    /\ WasmCursor(1) < 2
    /\ Len(logs) > 0

\* the strings the CID validator is said to accept: "Qm" and 44 base58
\* characters, or "bafy" and 55 letters or digits
IsCid(text) ==
    \/ /\ Len(text) = 46
       /\ SubSeq(text, 1, 2) = <<81, 109>>
       /\ \A i \in 3..46 : text[i] \in Base58Chars
    \/ /\ Len(text) = 59
       /\ SubSeq(text, 1, 4) = <<98, 97, 102, 121>>
       /\ \A i \in 5..59 : text[i] \in AlnumChars

\* C24: the CID validator accepts exactly the strings that are "Qm" followed by
\* 44 base58 characters or "bafy" followed by 55 letters or digits; a workflow
\* or module whose hash is any other string is never fetched (the content
\* store is never asked for it and nothing is stored for it) and the filler
\* that met it records a failure.
C24_OnlyCidsFetched ==
    /\ \A i \in 1..Len(workflows) :
        LET h == workflows[i].ipfs_hash
        IN  /\ IsCid(CidText[h]) => validate_ipfs_cid(h)
            /\ ~IsCid(CidText[h]) =>
                /\ h \notin DOMAIN ipfs
                /\ ~workflows[i].has_meta
                /\ (meta_pc = "commit" /\ ~meta_txn.snap.workflows[i].has_meta) =>
                        meta_txn.view.workflows[i].meta_fetch_failure_count
                            = meta_txn.snap.workflows[i].meta_fetch_failure_count + 1
    /\ \A i \in 1..Len(wasm_modules) :
        LET h == wasm_modules[i].ipfs_hash
        IN  /\ IsCid(CidText[h]) => validate_ipfs_cid(h)
            /\ ~IsCid(CidText[h]) =>
                /\ h \notin DOMAIN ipfs
                /\ ~wasm_modules[i].has_wasm
    /\ (wasm_pc \in {"update", "mark"} /\ ~IsCid(CidText[wasms[1].ipfs_hash])) =>
            (wasm_pc = "mark" /\ wasm_event = "fetch failed")

\* the pending items a batch lookup is said to return: no last-failure time, or
\* a last failure more than one hour old, or fewer than three failures
EligibleWorkflows(S) ==
    {i \in 1..Len(S.workflows) :
        /\ ~S.workflows[i].has_meta
        /\ \/ S.workflows[i].meta_fetch_last_failed = NoTime
           \/ now - S.workflows[i].meta_fetch_last_failed > 1
           \/ S.workflows[i].meta_fetch_failure_count < 3}

EligibleModules(S) ==
    {i \in 1..Len(S.wasm_modules) :
        /\ ~S.wasm_modules[i].has_wasm
        /\ \/ S.wasm_modules[i].wasm_fetch_last_failed = NoTime
           \/ now - S.wasm_modules[i].wasm_fetch_last_failed > 1
           \/ S.wasm_modules[i].wasm_fetch_failure_count < 3}

\* R holds the first `limit` members of E, all of them when E has no more
FirstOf(R, E, limit) ==
    /\ R \subseteq E
    /\ Cardinality(R) = IF Cardinality(E) < limit THEN Cardinality(E) ELSE limit
    /\ \A i \in R, j \in E \ R : i < j

\* C25: a batch lookup of either filler returns a pending item exactly when
\* the item has no last-failure time, or its last failure is more than one
\* hour old, or its failure count is below 3, up to the batch size (the first
\* ones in the collection's order); so the pending items passed over by a
\* lookup that is not cut short are exactly those with three or more failures
\* whose last failure is not more than one hour old.
C25_LookupSelection ==
    /\ \A limit \in 1..3 :
        /\ FirstOf(find_workflows_without_meta_batch(Store, limit),
                   EligibleWorkflows(Store), limit)
        /\ FirstOf(find_wasms_without_code_batch(Store, limit),
                   EligibleModules(Store), limit)
    /\ \A i \in 1..Len(workflows) :
        (~workflows[i].has_meta
            /\ i \notin find_workflows_without_meta_batch(Store, META_FILLER_BATCH_SIZE))
        <=> /\ ~workflows[i].has_meta
            /\ workflows[i].meta_fetch_failure_count >= 3
            /\ InWindow(workflows[i].meta_fetch_last_failed)
    /\ \A i \in 1..Len(wasm_modules) :
        (~wasm_modules[i].has_wasm
            /\ i \notin find_wasms_without_code_batch(Store, META_FILLER_BATCH_SIZE))
        <=> /\ ~wasm_modules[i].has_wasm
            /\ wasm_modules[i].wasm_fetch_failure_count >= 3
            /\ InWindow(wasm_modules[i].wasm_fetch_last_failed)

\* two hours on: both workflows failed three times at the start and are
\* eligible again, a lookup of limit 1 returns the first only; the module
\* failed for the third time an hour ago and is passed over
C25_Witness ==
    /\ now = 2
    /\ Len(workflows) = 2
    /\ \A i \in 1..2 :
        /\ ~workflows[i].has_meta
        /\ workflows[i].meta_fetch_failure_count = 3
        /\ workflows[i].meta_fetch_last_failed = 0
    /\ find_workflows_without_meta_batch(Store, 1) = {1}
    /\ find_workflows_without_meta_batch(Store, META_FILLER_BATCH_SIZE) = {1, 2}
    /\ Len(wasm_modules) = 1
    /\ ~wasm_modules[1].has_wasm
    /\ wasm_modules[1].wasm_fetch_failure_count = 3
    /\ wasm_modules[1].wasm_fetch_last_failed = 1
    /\ find_wasms_without_code_batch(Store, META_FILLER_BATCH_SIZE) = {}

\* what a workflow document is said to be after the filler succeeded for it
\* with the given payload
Filled(wf, payload) ==
    [wf EXCEPT !.meta = payload,
               !.has_meta = TRUE,
               !.meta_fetch_failure_count = 0,
               !.meta_fetch_last_failed = NoTime,
               !.is_cancelled = IF payload.has_count /\ wf.runs >= payload.count
                                THEN TRUE ELSE @]

\* C26: when the Metadata Filler succeeds for a workflow of its batch (the
\* content store answered with a payload that has no rejected key), the
\* filler's transaction holds that workflow with the payload as meta, has_meta
\* true, no failure-tracking fields, is_cancelled true exactly when the payload
\* declares a count and the workflow's runs are at least the count (unchanged
\* otherwise), and everything else, runs and chains_runs included, as it was.
C26_FillerSuccess ==
    [][(meta_pc = "idle" /\ meta_pc' = "commit") =>
        \A i \in find_workflows_without_meta_batch(Store, META_FILLER_BATCH_SIZE) :
            LET wf == workflows[i]
                h == wf.ipfs_hash
            IN  (validate_ipfs_cid(h) /\ ~has_invalid_mongo_keys(ipfs'[h].body)) =>
                    meta_txn'.view.workflows[i] = Filled(wf, ipfs'[h])
      ]_vars

\* a workflow counted by the flat counter only
IsFlat(wf) == wf.runs > 0 /\ DOMAIN wf.chains_runs = {}

\* the run events a chain may deliver next for hash h
NextRuns(h) == {Run(h), RunWithMetadata(h, "n1"), RunWithMetadata(h, "n2")}

\* C27: a Run, or a RunWithMetadata whose nonce is not logged yet, applied to a
\* workflow with runs > 0 and empty chains_runs increases runs by exactly 1 and
\* leaves chains_runs empty, and no step ever takes such a workflow out of flat
\* mode; applied to a workflow with runs = 0 and empty chains_runs it takes the
\* per-chain path: chains_runs is non-empty afterwards and runs is its maximum.
\* Checked for every chain's event on every reachable store and on every step.
C27_LegacyFlatMode ==
    [][/\ \A i \in 1..Len(workflows) :
            IsFlat(workflows[i]) =>
                /\ IsFlat(workflows'[i])
                /\ workflows'[i].runs >= workflows[i].runs
       /\ \A c \in Chains, h \in {"h1", "h2"} : \A t \in NextRuns(h) :
            LET evt == process_log(RawLog(c, "main", MaxReducerBlocks + 1, 1, t))
                i == find_workflow_by_ipfs(Store, h)
                duplicate == /\ t.topic = EventType.RUN_WITH_METADATA
                             /\ has_run_event_with_nonce(Store, h, t.nonce)
                wf == workflows[i]
                after == Reduce(Store, evt, c).workflows[i]
            IN  (i # 0 /\ ~duplicate) =>
                    /\ IsFlat(wf) =>
                            /\ after.runs = wf.runs + 1
                            /\ after.chains_runs = EmptyDict
                    /\ (wf.runs = 0 /\ DOMAIN wf.chains_runs = {}) =>
                            /\ DOMAIN after.chains_runs # {}
                            /\ after.runs = MaxValue(after.chains_runs)
                            /\ after.runs = 1
      ]_vars

\* the workflow of the earlier version has counted a run of the other chain in
\* its flat counter (one more than the runs counted before) and has no
\* per-chain counters; the new workflow has them
C27_Witness ==
    /\ Len(workflows) = 2
    /\ IsFlat(workflows[1])
    /\ \E k \in 1..Len(logs) :
            /\ logs[k].chain_id = 2
            /\ logs[k].event = EventType.RUN
            /\ logs[k].ipfs_hash = "h1"
    /\ workflows[1].runs =
            Cardinality({k \in 1..Len(logs) :
                            logs[k].event = EventType.RUN /\ logs[k].ipfs_hash = "h1"})
    /\ workflows[1].runs > 1
    /\ DOMAIN workflows[2].chains_runs # {}
    /\ workflows[2].runs = MaxValue(workflows[2].chains_runs)


KnownTopics(r) ==
    IF r = "main"
    THEN {EventType.CREATED, EventType.RUN, EventType.RUN_WITH_METADATA,
          EventType.CANCELLED}
    ELSE {WASM_CREATED, WASM_UPDATED}

\* C29: a raw log whose topic is not in the registry's topic map is ignored
\* without error.  On every attempt of a batch: a decoding or reducer error
\* occurs only when the batch holds a log of a known topic; an attempt that
\* reaches its commit has decoded the logs of known topics and no other, its
\* transaction inserts one log entry per decoded event, and when the batch
\* holds only logs of unknown topics (or no log) the transaction changes
\* nothing but the registry's cursor, which it sets to batch_end.  When that
\* transaction commits the store's cursor is batch_end and the logs,
\* workflows and modules are as before.
C29_UnknownTopicIgnored ==
    [][\A c \in Chains :
        /\ (pc[c] \in {"registry", "wasm"} /\ last_event'[c] \in {"decode failed", "reducer failed", "none"}
                /\ <<pc[c], chainlog, last_event[c], txn[c]>> # <<pc'[c], chainlog', last_event'[c], txn'[c]>>) =>
            LET r == IF pc[c] = "registry" THEN "main" ELSE "wasm"
                raw_logs == get_logs(chainlog'[c][r], c, r, batch_start[c], batch_end(c))
                known == {k \in 1..Len(raw_logs) : raw_logs[k].topic \in KnownTopics(r)}
            IN  /\ last_event'[c] \in {"decode failed", "reducer failed"} => known # {}
                /\ pc'[c] \in {"registry_commit", "wasm_commit"} =>
                    LET t == txn'[c]
                    IN  /\ Len(t.decoded) = Cardinality(known)
                        /\ \A k \in 1..Len(t.decoded) : t.decoded[k].name \in KnownTopics(r)
                        /\ Len(t.view.logs) = Len(logs) + Len(t.decoded)
                        /\ known = {} =>
                            /\ t.view.logs = logs
                            /\ t.view.workflows = workflows
                            /\ t.view.wasm_modules = wasm_modules
                            /\ t.view.chains =
                                IF r = "main"
                                THEN [chains EXCEPT ![c].last_processed_block = batch_end(c)]
                                ELSE [chains EXCEPT ![c].wasm_last_processed_block = batch_end(c)]
        /\ (pc[c] \in {"registry_commit", "wasm_commit"} /\ last_event'[c] = "committed"
                /\ Len(txn[c].decoded) = 0) =>
            /\ logs' = logs /\ workflows' = workflows /\ wasm_modules' = wasm_modules
            /\ IF pc[c] = "registry_commit"
               THEN chains'[c].last_processed_block = txn[c].batch_end
               ELSE chains'[c].wasm_last_processed_block = txn[c].batch_end
      ]_vars

\* both registries' first block held only an event their decoders do not know:
\* both batches are committed, both cursors are at the block, nothing is stored
C29_Witness ==
    /\ 1 \in DOMAIN chainlog[1]["main"]
    /\ 1 \in DOMAIN chainlog[1]["wasm"]
    /\ chainlog[1]["main"][1] = <<OtherEvent>>
    /\ chainlog[1]["wasm"][1] = <<Created("h1")>>
    /\ last_event[1] = "committed"
    /\ Cursor(1) = 1
    /\ WasmCursor(1) = 1
    /\ logs = <<>>
    /\ workflows = <<>>
    /\ wasm_modules = <<>>

\* C30: the worker never indexes beyond the safe block.  A batch that commits
\* ends at or before the height read at the start of its iteration minus the
\* confirmation delay, and that height is not above the chain's; no block
\* beyond the safe block is ever fetched or logged.  An iteration that starts
\* with the safe block below cursor + 1 for a registry does not enter that
\* registry's batches; when that holds for both registries the iteration goes
\* straight to the sync flag, fetching nothing and leaving the cursors and the
\* logs collection as they were.
C30_NeverBeyondSafeBlock ==
    [][\A c \in Chains :
        LET safe == head[c] - chain_doc[c].block_delay
        IN  /\ (pc[c] \in {"registry_commit", "wasm_commit"} /\ last_event'[c] = "committed") =>
                /\ txn[c].batch_end <= current_block[c] - chain_doc[c].block_delay
                /\ current_block[c] <= head[c]
                /\ IF pc[c] = "registry_commit"
                   THEN chains'[c].last_processed_block = txn[c].batch_end
                   ELSE chains'[c].wasm_last_processed_block = txn[c].batch_end
            /\ \A r \in {"main", "wasm"} : \A b \in DOMAIN chainlog'[c][r] : b <= safe
            /\ \A k \in 1..Len(logs') : logs'[k].chain_id = c => logs'[k].blocknumber <= safe
            /\ pc[c] = "start" /\ pc'[c] # "start" =>
                /\ safe < Cursor(c) + 1 => pc'[c] # "registry"
                /\ safe < WasmCursor(c) + 1 => pc'[c] # "wasm"
                /\ (safe < Cursor(c) + 1 /\ safe < WasmCursor(c) + 1) =>
                    /\ pc'[c] = "sync"
                    /\ chainlog' = chainlog
                    /\ logs' = logs
                    /\ chains' = chains
            /\ (pc[c] = "sync" /\ pc'[c] = "start") =>
                /\ chainlog' = chainlog
                /\ logs' = logs
                /\ chains'[c].last_processed_block = chains[c].last_processed_block
                /\ chains'[c].wasm_last_processed_block = chains[c].wasm_last_processed_block
            /\ (pc[c] \in {"registry", "wasm"} /\ chainlog' # chainlog) =>
                /\ batch_start[c] = (IF pc[c] = "registry" THEN Cursor(c) ELSE WasmCursor(c)) + 1
                /\ batch_start[c] <= current_block[c] - chain_doc[c].block_delay
      ]_vars

\* the chain is at block 2 and both cursors at block 1, the safe block: the
\* batches up to it are committed, and the iteration that read the height 2
\* went straight to the sync flag without fetching block 2
C30_Witness ==
    /\ head[1] = 2
    /\ current_block[1] = 2
    /\ Cursor(1) = 1
    /\ WasmCursor(1) = 1
    /\ pc[1] = "sync"
    /\ last_event[1] = "none"
    /\ DOMAIN chainlog[1]["main"] = {1}
    /\ DOMAIN chainlog[1]["wasm"] = {1}
    /\ Len(logs) > 0

\* C31: whenever a module has has_wasm = true, its stored wasm_code is the
\* payload the content store holds for the module's current ipfs_hash, and that
\* payload was fetched; in particular a WasmUpdated event committed between the
\* WASM filler's lookup and its update transaction does not leave the module
\* flagged as fetched with the code of the old hash.
C31_CodeOfCurrentHash ==
    \A i \in 1..Len(wasm_modules) :
        wasm_modules[i].has_wasm =>
            /\ wasm_modules[i].ipfs_hash \in DOMAIN ipfs
            /\ wasm_modules[i].wasm_code = ipfs[wasm_modules[i].ipfs_hash]

\* C32: in every reachable state a workflow with has_meta = true whose metadata
\* declares an execution count and whose runs have reached that count is
\* cancelled, however the metadata filler's batch transaction and the chain
\* workers' batches applying Run / RunWithMetadata events to it interleave.
C32_CountReachedIsCancelled ==
    \A i \in 1..Len(workflows) :
        (/\ workflows[i].has_meta
         /\ workflows[i].meta.has_count
         /\ workflows[i].runs >= workflows[i].meta.count) => workflows[i].is_cancelled

\* C32 witness: a workflow has its metadata, has reached the count it declares
\* and is cancelled with no cancel event, while a chain's worker is about to
\* commit a batch with a run of that workflow which it began when the workflow
\* had no metadata yet (the filler committed in between).
C32_Witness ==
    \E i \in 1..Len(workflows) :
        /\ workflows[i].has_meta
        /\ workflows[i].meta.has_count
        /\ workflows[i].runs >= workflows[i].meta.count
        /\ workflows[i].is_cancelled
        /\ workflows[i].cancel_event_id = NoId
        /\ \E c \in Chains :
            /\ pc[c] = "registry_commit"
            /\ txn[c].active
            /\ i \in 1..Len(txn[c].snap.workflows)
            /\ ~txn[c].snap.workflows[i].has_meta
            /\ txn[c].view.workflows[i].runs > txn[c].snap.workflows[i].runs

\* the counter of chain c in a workflow document, 0 when it has none yet
ChainRuns(wf, c) ==
    IF ChainIdStr(c) \in DOMAIN wf.chains_runs THEN wf.chains_runs[ChainIdStr(c)] ELSE 0

\* the committed run events of workflow h that count: every Run event, and of
\* the RunWithMetadata events of one nonce the first one logged
CountedRuns(S, h) ==
    {i \in RunLogs(S, h) :
        \/ S.logs[i].nonce = None
        \/ \A j \in RunLogs(S, h) : S.logs[j].nonce = S.logs[i].nonce => i <= j}

\* C33: no run is lost to a read-modify-write race.  For the workflow that
\* existed before the workers started (it counts per chain), the counter of each
\* chain equals the number of committed counted run events of that chain (Run
\* events, and RunWithMetadata events whose nonce was new), although the two
\* chains' workers apply runs to it in overlapping transactions that each write
\* the whole chains_runs map.
C33_NoRunLost ==
    IsSeeded =>
        \A c \in Chains :
            ChainRuns(workflows[1], c)
                = Cardinality({i \in CountedRuns(Store, "h1") : logs[i].chain_id = c})

\* C33 witness: chain 2's run of the workflow is committed and counted, while
\* the worker of chain 1 is about to commit a batch whose transaction began
\* before and holds a chains_runs map with chain 1's run only.
C33_Witness ==
    /\ IsSeeded
    /\ ChainRuns(workflows[1], 2) = 1
    /\ pc[1] = "registry_commit"
    /\ txn[1].active
    /\ ChainRuns(txn[1].snap.workflows[1], 2) = 0
    /\ DOMAIN txn[1].view.workflows[1].chains_runs = {ChainIdStr(1)}
    /\ ChainRuns(txn[1].view.workflows[1], 1) = 1

\* the log entries of workflow h that follow its first Created entry
SinceCreated(S, h) ==
    {k \in 1..Len(S.logs) :
        /\ S.logs[k].ipfs_hash = h
        /\ \E j \in CreatedLogs(S, h) : j < k}
\* the log entries of module id that follow its first WasmCreated entry
SinceWasmCreated(S, id) ==
    {k \in 1..Len(S.logs) :
        /\ S.logs[k].wasm_id = id
        /\ \E j \in 1..(k - 1) : S.logs[j].wasm_id = id /\ S.logs[j].event = WASM_CREATED}

\* C34: a Run, RunWithMetadata or Cancelled event for a hash without workflow,
\* and a WasmUpdated event for an id without module, adds its log entry and
\* nothing else.  The aggregate created afterwards is the one that would have
\* been created had the event never been seen (no run counted, not cancelled,
\* the announced hash, no update history).  A RunWithMetadata nonce logged
\* before the workflow existed is a duplicate in every later delivery: it never
\* increments runs.  Stated of the reducers on every reachable store, and of
\* the store itself: the counters, the cancellation and the update history
\* reflect only the events logged after the aggregate was created.
C34_OrphanEventsOnlyLog ==
    /\ \A c \in Chains :
        \A t \in {Run("h1"), RunWithMetadata("h1", "n1"), RunWithMetadata("h1", "n2"),
                  Cancelled("h1")} :
            find_workflow_by_ipfs(Store, "h1") = 0 =>
                LET evt == Decoded(c, MaxHead + 1, t)
                    S1 == Reduce(Store, evt, c)
                    created == Decoded(c, MaxHead + 2, Created("h1"))
                    S2 == Reduce(S1, created, c)
                    S3 == Reduce(S2, Decoded(c, MaxHead + 3, t), c)
                IN  /\ S1.workflows = workflows
                    /\ S1.wasm_modules = wasm_modules
                    /\ S1.chains = chains
                    /\ Len(S1.logs) = Len(logs) + 1
                    /\ SubSeq(S1.logs, 1, Len(logs)) = logs
                    /\ S1.logs[Len(logs) + 1].transaction_hash = evt.transactionHash
                    /\ S2.workflows = Reduce(Store, created, c).workflows
                    /\ Len(S2.workflows) = Len(workflows) + 1
                    /\ S2.workflows[Len(S2.workflows)].runs = 0
                    /\ S2.workflows[Len(S2.workflows)].is_cancelled = FALSE
                    /\ t.topic = EventType.RUN_WITH_METADATA => S3.workflows = S2.workflows
                    /\ t.topic = EventType.RUN => S3.workflows[Len(S3.workflows)].runs = 1
    /\ \A c \in Chains :
        find_wasm_by_id(Store, "w1") = 0 =>
            LET evt == process_log(RawLog(c, "wasm", MaxHead + 1, 1,
                                          WasmUpdated("w1", "h1", "h2")))
                S1 == Reduce(Store, evt, c)
                created == process_log(RawLog(c, "wasm", MaxHead + 2, 1,
                                              WasmCreated("w1", "h1")))
                S2 == Reduce(S1, created, c)
            IN  /\ S1.wasm_modules = wasm_modules
                /\ S1.workflows = workflows
                /\ S1.chains = chains
                /\ Len(S1.logs) = Len(logs) + 1
                /\ SubSeq(S1.logs, 1, Len(logs)) = logs
                /\ S1.logs[Len(logs) + 1].transaction_hash = evt.transactionHash
                /\ S2.wasm_modules = Reduce(Store, created, c).wasm_modules
                /\ Len(S2.wasm_modules) = Len(wasm_modules) + 1
                /\ S2.wasm_modules[Len(S2.wasm_modules)].ipfs_hash = "h1"
                /\ S2.wasm_modules[Len(S2.wasm_modules)].update_history = <<>>
    /\ \A i \in 1..Len(workflows) :
        LET h == workflows[i].ipfs_hash
            since == SinceCreated(Store, h)
        IN  /\ CreatedLogs(Store, h) # {}
            /\ \A c \in Chains :
                ChainRuns(workflows[i], c)
                    = Cardinality({k \in CountedRuns(Store, h) \cap since :
                                        logs[k].chain_id = c})
            /\ workflows[i].is_cancelled
                    <=> \E k \in since : logs[k].event = EventType.CANCELLED
    /\ \A i \in 1..Len(wasm_modules) :
        LET updates == {k \in SinceWasmCreated(Store, wasm_modules[i].wasm_id) :
                            logs[k].event = WASM_UPDATED}
        IN  /\ Len(wasm_modules[i].update_history) = Cardinality(updates)
            /\ wasm_modules[i].ipfs_hash = (IF updates = {} THEN "h1" ELSE "h2")

\* C34 witness: a RunWithMetadata with nonce n1, a Cancelled and a WasmUpdated
\* event were logged when their workflow and module did not exist; both were
\* created afterwards, the same nonce was delivered again, and the workflow
\* counts no run and is not cancelled and the module has no update history.
C34_Witness ==
    /\ Len(workflows) = 1 /\ Len(wasm_modules) = 1
    /\ \E j \in CreatedLogs(Store, "h1") :
        /\ \E k \in 1..(j - 1) : logs[k].event = "Run" /\ logs[k].nonce = "n1"
        /\ \E k \in (j + 1)..Len(logs) : logs[k].event = "Run" /\ logs[k].nonce = "n1"
    /\ workflows[1].runs = 0
    /\ ~workflows[1].is_cancelled
    /\ \E j \in 1..Len(logs) :
        /\ logs[j].event = WASM_CREATED
        /\ \E k \in 1..(j - 1) : logs[k].event = WASM_UPDATED
    /\ wasm_modules[1].update_history = <<>>
    /\ wasm_modules[1].ipfs_hash = "h1"

\* C35: a pending workflow whose payload is valid and fetchable eventually gets
\* has_meta = true, every thread being scheduled fairly and time advancing,
\* although as many other pending workflows as a batch holds fail on every
\* attempt.
C35_PendingEventuallyFilled ==
    <>(\E i \in 1..Len(workflows) : workflows[i].ipfs_hash = "h1" /\ workflows[i].has_meta)

\* C36: a step that rotates a module's hash (a committed WasmUpdated event)
\* leaves its failure count and its last-failure time as they were, and a
\* module with three or more failures, the last not more than an hour old, is
\* not returned by the filler's lookup right after the rotation; in every
\* state such a module is skipped whatever its hash, and a pending module
\* whose last failure is more than an hour old is returned again.
C36_RotationKeepsFailureTracking ==
    [][\A i \in 1..Len(wasm_modules) :
        LET d == wasm_modules[i]
            e == wasm_modules'[i]
        IN  /\ e.ipfs_hash # d.ipfs_hash =>
                /\ e.wasm_fetch_failure_count = d.wasm_fetch_failure_count
                /\ e.wasm_fetch_last_failed = d.wasm_fetch_last_failed
                /\ e.has_wasm = FALSE
                /\ (d.wasm_fetch_failure_count >= 3 /\ InWindow(d.wasm_fetch_last_failed)) =>
                        i \notin find_wasms_without_code_batch(Store', META_FILLER_BATCH_SIZE)
            /\ (d.wasm_fetch_failure_count >= 3 /\ InWindow(d.wasm_fetch_last_failed)) =>
                    i \notin NextModules
            /\ (~d.has_wasm /\ d.wasm_fetch_last_failed # NoTime
                    /\ ~InWindow(d.wasm_fetch_last_failed)) => i \in NextModules]_vars

\* C36 witness: the module's hash was rotated to h2 after three fetches of the
\* old hash failed within the hour (the new hash was never requested), and the
\* lookup does not return the module.
C36_Witness ==
    /\ Len(wasm_modules) = 1
    /\ wasm_modules[1].ipfs_hash = "h2"
    /\ wasm_modules[1].update_history # <<>>
    /\ "h2" \notin DOMAIN ipfs
    /\ "h1" \in DOMAIN ipfs
    /\ ~wasm_modules[1].has_wasm
    /\ wasm_modules[1].wasm_fetch_failure_count = 3
    /\ InWindow(wasm_modules[1].wasm_fetch_last_failed)
    /\ wasm_pc = "idle"
    /\ NextModules = {}

C38_MainThenWasmThenSync ==
    [][\A c \in Chains :
        /\ InWasmBatch(pc[c]) =>
            /\ Cursor(c) >= latest_block(c)
            /\ chains'[c].is_synced = chains[c].is_synced
        /\ pc[c] = "sync" =>
            /\ Cursor(c) >= latest_block(c)
            /\ WasmConfigured(c) => WasmCursor(c) >= latest_block(c)
        /\ InRegistryBatch(pc[c]) =>
            /\ WasmCursor(c)' = WasmCursor(c)
            /\ chains'[c].is_synced = chains[c].is_synced
            /\ pc'[c] \in {"registry", "registry_commit"}
                \/ (pc'[c] = "start" /\ last_event'[c] = "killed")
                \/ (last_event'[c] = "committed" /\ Cursor(c)' >= latest_block(c))
            /\ last_event'[c] \notin {"none", "committed", "killed"} =>
                /\ pc'[c] = "registry"
                /\ batch_start'[c] = batch_start[c]
                /\ Cursor(c)' = Cursor(c)]_vars

\* C38 witness: an attempt of a main-registry batch has failed and is about to
\* be repeated while the WASM registry has blocks to index below the safe block
\* and the persisted flag still says synced, which the cursors no longer justify.
C38_Witness ==
    \E c \in Chains :
        /\ pc[c] = "registry"
        /\ last_event[c] \notin {"none", "committed", "killed"}
        /\ WasmConfigured(c)
        /\ WasmCursor(c) < latest_block(c)
        /\ chains[c].is_synced
        /\ ~ComputeIsSynced(c)

\* an iteration of process_chain of chain c is under way and both of its
\* cursors are at or below the safe block of the height it read
StartsSafe(c) ==
    /\ pc[c] # "start"
    /\ Cursor(c) <= latest_block(c)
    /\ WasmConfigured(c) => WasmCursor(c) <= latest_block(c)

\* at the computation of the flag each cursor is at least block_delay behind the
\* height read, and where block_delay >= sync_threshold_blocks the value
\* computed is false; the flag an iteration has persisted is then false
BehindByDelay(c) ==
    /\ pc[c] = "sync" =>
        /\ current_block[c] - last_processed[c] >= chain_doc[c].block_delay
        /\ WasmConfigured(c) =>
                current_block[c] - wasm_last_processed[c] >= chain_doc[c].block_delay
        /\ chain_doc[c].block_delay >= chain_doc[c].sync_threshold_blocks =>
                ~ComputeIsSynced(c)
    /\ (/\ pc[c] = "start"
        /\ last_event[c] \in {"sync written", "sync unchanged"}
        /\ chain_doc[c].block_delay >= chain_doc[c].sync_threshold_blocks) =>
            ~chains[c].is_synced

\* C39: from an iteration whose cursors are at or below the safe block onwards
\* (the height never decreases), every computation of the sync flag finds
\* head - cursor >= block_delay for both cursors; with block_delay >=
\* sync_threshold_blocks the value computed is false and every iteration that
\* completes leaves the persisted is_synced false.  Stated of chain 1.
C39_NeverSyncedWhenDelayCoversThreshold ==
    [](StartsSafe(1) => []BehindByDelay(1))

\* C39 witness: the worker has indexed both registries up to the safe block of
\* the highest block the chain reaches, an iteration has completed, and the
\* persisted flag is false.
C39_Witness ==
    \E c \in Chains :
        /\ pc[c] = "start"
        /\ last_event[c] \in {"sync written", "sync unchanged"}
        /\ head[c] = MaxHead
        /\ current_block[c] = head[c]
        /\ Cursor(c) = head[c] - chain_doc[c].block_delay
        /\ WasmCursor(c) = Cursor(c)
        /\ chain_doc[c].block_delay >= chain_doc[c].sync_threshold_blocks
        /\ ~chains[c].is_synced
====
